---- MODULE Spec2Model ----
(***************************************************************************)
(* A model of the Xi graph IR (maja0027/xi-lang): the node model, the      *)
(* content hasher, the binary codec, the graph-reduction evaluators        *)
(* (Interpreter and MatchInterpreter) and the optimizer passes.            *)
(*                                                                         *)
(* Python objects live in a heap: a sequence of node records whose         *)
(* children are heap positions, so allocation identity (id(node)) is the   *)
(* position.  Bytes are naturals 0..255, strings are sequences of code     *)
(* points, SHA-256 is modelled as collision free: a digest is the          *)
(* structured preimage that was fed to the hash.                           *)
(***************************************************************************)
EXTENDS Integers, Sequences, FiniteSets, TLC

VARIABLES
  heap,      \* allocated nodes, in allocation order
  phase,     \* "build" until an operation ran, then the operation's name
  root,      \* the node the last operation was applied to (0: none yet)
  input,     \* the byte buffer / the term handed to the last operation
  output     \* what the last operation returned or raised

vars == <<heap, phase, root, input, output>>

None == [k |-> "none"]

-----------------------------------------------------------------------------
(* Tag, PrimOp, Effect: xi.py; MATCH, CONSTR: xi_match.py *)
LAM == 0
APP == 1
PI == 2
SIG == 3
UNI == 4
FIX == 5
IND == 6
EQ == 7
EFF == 8
PRIM == 9

VAR == 0
PRINT == 1
STR_LIT == 2
INT_LIT == 3
FLOAT_LIT == 4
UNIT == 5
INT_ADD == 16
INT_SUB == 17
INT_MUL == 18
INT_DIV == 19
INT_MOD == 20
INT_NEG == 21
INT_EQ == 32
INT_LT == 33
INT_GT == 34
BOOL_TRUE == 48
BOOL_FALSE == 49
BOOL_NOT == 50
BOOL_AND == 51
BOOL_OR == 52
STR_CONCAT == 80
STR_LEN == 81
MATCH == 96
CONSTR == 97

EFFECT_IO == 1

MAGIC == <<206, 158>>
FORMAT_VERSION == 1

\* prim_op = None
NoOp == -1

-----------------------------------------------------------------------------
(* Payload values (Node.data) and the Node dataclass *)
DNone == [k |-> "none"]
DInt(v) == [k |-> "int", i |-> v]
DBool(b) == [k |-> "bool", b |-> b]
DStr(s) == [k |-> "str", s |-> s]
DFloat(bits) == [k |-> "float", bits |-> bits]

\* isinstance(data, int): bool is a subclass of int
IsIntData(d) == d.k \in {"int", "bool"}
IntOf(d) == IF d.k = "bool" THEN (IF d.b THEN 1 ELSE 0) ELSE d.i

Node(tag, children, prim_op, data, effect, universe_level) ==
  [tag |-> tag, children |-> children, prim_op |-> prim_op, data |-> data,
   effect |-> effect, universe_level |-> universe_level]

\* class B
B_var(index) == Node(PRIM, <<>>, VAR, DInt(index), 0, 0)
B_lam(type_ann, body) == Node(LAM, <<type_ann, body>>, NoOp, DNone, 0, 0)
B_app(func, arg) == Node(APP, <<func, arg>>, NoOp, DNone, 0, 0)
B_pi(domain, codomain) == Node(PI, <<domain, codomain>>, NoOp, DNone, 0, 0)
B_universe(level) == Node(UNI, <<>>, NoOp, DNone, 0, level)
B_fix(type_ann, body) == Node(FIX, <<type_ann, body>>, NoOp, DNone, 0, 0)
B_effect(expr, eff) == Node(EFF, <<expr>>, NoOp, DNone, eff, 0)
B_int_lit(value) == Node(PRIM, <<>>, INT_LIT, DInt(value), 0, 0)
B_str_lit(value) == Node(PRIM, <<>>, STR_LIT, DStr(value), 0, 0)
B_prim(op) == Node(PRIM, <<>>, op, DNone, 0, 0)
B_unit == Node(PRIM, <<>>, UNIT, DNone, 0, 0)
\* Node(Tag.SIG, ...), Node(Tag.IND, ...): built through the dataclass
N_sig(a, b) == Node(SIG, <<a, b>>, NoOp, DNone, 0, 0)
N_ind == Node(IND, <<>>, NoOp, DNone, 0, 0)
\* Node(Tag.PRIM, prim_op=CONSTR, data=index); Node(Tag.PRIM, prim_op=MATCH, data=n)
N_constr(index) == Node(PRIM, <<>>, CONSTR, DInt(index), 0, 0)
N_match(n) == Node(PRIM, <<>>, MATCH, DInt(n), 0, 0)

-----------------------------------------------------------------------------
(* Byte helpers: int.to_bytes, int.from_bytes, str.encode, bytes.decode *)
RECURSIVE Shr8(_, _)
Shr8(v, k) == IF k = 0 THEN v ELSE Shr8(v \div 256, k - 1)

\* v.to_bytes(n, 'big', signed=...): two's complement, most significant first
ToBytes(v, n) == [j \in 1..n |-> Shr8(v, n - j) % 256]

\* the ranges outside of which to_bytes raises OverflowError
FitsUnsigned(v, n) == v >= 0 /\ Shr8(v, n) = 0
FitsSigned(v, n) == IF v >= 0 THEN Shr8(v, n - 1) < 128 ELSE Shr8(v, n - 1) >= -128

RECURSIVE Horner(_, _)
Horner(bs, acc) == IF bs = <<>> THEN acc ELSE Horner(Tail(bs), acc * 256 + Head(bs))

\* int.from_bytes(bs, 'big'); b'' gives 0
FromBytes(bs) == Horner(bs, 0)

\* int.from_bytes(bs, 'big', signed=True)
FromBytesSigned(bs) ==
  IF bs = <<>> \/ Head(bs) < 128 THEN Horner(bs, 0)
  ELSE -(1 + Horner([j \in 1..Len(bs) |-> 255 - bs[j]], 0))

\* data[a:b], clamped to the buffer as Python slices are (0-based, b exclusive)
Slice(data, a, b) ==
  LET lo == IF a > Len(data) THEN Len(data) ELSE a
      hi == IF b > Len(data) THEN Len(data) ELSE b
  IN IF hi <= lo THEN <<>> ELSE SubSeq(data, lo + 1, hi)

Utf8Char(cp) ==
  IF cp < 128 THEN <<cp>>
  ELSE IF cp < 2048 THEN <<192 + (cp \div 64), 128 + (cp % 64)>>
  ELSE IF cp < 65536 THEN <<224 + (cp \div 4096), 128 + ((cp \div 64) % 64), 128 + (cp % 64)>>
  ELSE <<240 + (cp \div 262144), 128 + ((cp \div 4096) % 64),
         128 + ((cp \div 64) % 64), 128 + (cp % 64)>>

\* s.encode('utf-8'): the code points' encodings in order (by halves, so
\* that a long string is not a deep recursion)
RECURSIVE Utf8Encode(_)
Utf8Encode(s) ==
  CASE s = <<>> -> <<>>
    [] Len(s) = 1 -> Utf8Char(s[1])
    [] OTHER -> Utf8Encode(SubSeq(s, 1, Len(s) \div 2))
                \o Utf8Encode(SubSeq(s, Len(s) \div 2 + 1, Len(s)))

IsCont(b) == b >= 128 /\ b < 192

\* bytes.decode('utf-8'): [ok |-> TRUE, s |-> code points], or ok = FALSE
\* where Python raises UnicodeDecodeError
RECURSIVE Utf8Decode(_)
Utf8Decode(bs) ==
  IF bs = <<>> THEN [ok |-> TRUE, s |-> <<>>]
  ELSE LET b0 == bs[1]
           n == IF b0 < 128 THEN 1
                ELSE IF b0 >= 194 /\ b0 < 224 THEN 2
                ELSE IF b0 >= 224 /\ b0 < 240 THEN 3
                ELSE IF b0 >= 240 /\ b0 < 245 THEN 4
                ELSE 0
           ok == /\ n > 0
                 /\ Len(bs) >= n
                 /\ \A j \in 2..n : IsCont(bs[j])
                 /\ (b0 = 224 => bs[2] >= 160)
                 /\ (b0 = 237 => bs[2] < 160)
                 /\ (b0 = 240 => bs[2] >= 144)
                 /\ (b0 = 244 => bs[2] < 144)
           cp == IF n = 1 THEN b0
                 ELSE IF n = 2 THEN (b0 - 192) * 64 + (bs[2] - 128)
                 ELSE IF n = 3 THEN (b0 - 224) * 4096 + (bs[2] - 128) * 64 + (bs[3] - 128)
                 ELSE (b0 - 240) * 262144 + (bs[2] - 128) * 4096
                      + (bs[3] - 128) * 64 + (bs[4] - 128)
       IN IF ~ok THEN [ok |-> FALSE, s |-> <<>>]
          ELSE LET rest == Utf8Decode(SubSeq(bs, n + 1, Len(bs)))
               IN [ok |-> rest.ok, s |-> <<cp>> \o rest.s]

-----------------------------------------------------------------------------
(* Node.content_hash *)
\* the payload bytes fed to the hash after the children's digests
\* a payload that feeds only the operation code and leaves the data out
HashPayload_OpOnly(n) == IF n.tag = PRIM /\ n.prim_op # NoOp THEN <<n.prim_op>> ELSE <<>>

HashPayload(n) ==
  (IF n.tag = PRIM /\ n.prim_op # NoOp
     THEN <<n.prim_op>> \o
          (IF n.data.k = "str" THEN Utf8Encode(n.data.s)
           ELSE IF IsIntData(n.data) THEN ToBytes(IntOf(n.data), 8)
           ELSE IF n.data.k = "float" THEN n.data.bits
           ELSE <<>>)
     ELSE <<>>)
  \o (IF n.tag = UNI THEN ToBytes(n.universe_level, 4) ELSE <<>>)
  \o (IF n.tag = EFF THEN <<n.effect>> ELSE <<>>)

HashHead(n) == n.tag * 16 + (Len(n.children) % 16)

\* the digest of node i of heap h: the header byte, the children's 32-byte
\* digests in order, the payload bytes
RECURSIVE content_hash(_, _)
\* a digest that also feeds the node's allocation address to the hash
content_hash_ById(h, i) ==
  [head |-> HashHead(h[i]),
   kids |-> [j \in 1..Len(h[i].children) |-> content_hash(h, h[i].children[j])],
   payload |-> HashPayload(h[i]) \o <<i>>]

content_hash(h, i) ==
  [head |-> HashHead(h[i]),
   kids |-> [j \in 1..Len(h[i].children) |-> content_hash(h, h[i].children[j])],
   payload |-> HashPayload(h[i])]

-----------------------------------------------------------------------------
(* serialize: xi.py *)
NoVisit == [visited |-> {}, nodes |-> <<>>]

\* collect(node): postorder, deduplicated by id(node)
RECURSIVE collect(_, _, _)
RECURSIVE collectChildren(_, _, _)
\* a traversal that does not look at the visited set
collect_NoDedup(h, i, st) ==
  LET st2 == collectChildren(h, h[i].children, [st EXCEPT !.visited = @ \cup {i}])
  IN [st2 EXCEPT !.nodes = Append(@, i)]

collect(h, i, st) ==
  IF i \in st.visited THEN st
  ELSE LET st1 == [st EXCEPT !.visited = @ \cup {i}]
           st2 == collectChildren(h, h[i].children, st1)
       IN [st2 EXCEPT !.nodes = Append(@, i)]
collectChildren(h, cs, st) ==
  IF cs = <<>> THEN st ELSE collectChildren(h, Tail(cs), collect(h, Head(cs), st))

\* the node table of serialize(root): heap positions in emission order
NodeTable(h, r) == collect(h, r, NoVisit).nodes

\* child references written as allocation addresses
index_of_Address(nodes, i) == i - 1

\* index_of[id(n)], 0-based
index_of(nodes, i) == (CHOOSE p \in 1..Len(nodes) : nodes[p] = i) - 1

RECURSIVE Concat(_)
Concat(ss) == IF ss = <<>> THEN <<>> ELSE Head(ss) \o Concat(Tail(ss))

\* header byte [TTTT AAAA]
HeaderByte(n) == n.tag * 16 + (Len(n.children) % 16)

\* the tag-specific data of one record
RecordPayload(n) ==
  (IF n.tag = PRIM /\ n.prim_op # NoOp
     THEN <<n.prim_op>> \o
          (IF n.data.k = "str"
             THEN ToBytes(Len(Utf8Encode(n.data.s)), 2) \o Utf8Encode(n.data.s)
           ELSE IF IsIntData(n.data) /\ n.prim_op = INT_LIT THEN ToBytes(IntOf(n.data), 8)
           ELSE IF n.data.k = "float" THEN n.data.bits
           ELSE IF IsIntData(n.data) /\ n.prim_op = VAR THEN ToBytes(IntOf(n.data), 2)
           ELSE <<>>)
     ELSE <<>>)
  \o (IF n.tag = UNI THEN ToBytes(n.universe_level, 2) ELSE <<>>)
  \o (IF n.tag = EFF THEN <<n.effect>> ELSE <<>>)

\* the fields whose to_bytes raises OverflowError
RecordFits(n) ==
  /\ (n.tag = PRIM /\ n.prim_op # NoOp /\ n.data.k = "str")
        => FitsUnsigned(Len(Utf8Encode(n.data.s)), 2)
  /\ (n.tag = PRIM /\ n.prim_op = INT_LIT /\ IsIntData(n.data))
        => FitsSigned(IntOf(n.data), 8)
  /\ (n.tag = PRIM /\ n.prim_op = VAR /\ IsIntData(n.data))
        => FitsUnsigned(IntOf(n.data), 2)
  /\ (n.tag = UNI) => FitsUnsigned(n.universe_level, 2)
  /\ (n.tag = EFF) => FitsUnsigned(n.effect, 1)

\* one record of the table; ov = <<p, j, v>> writes v as child j of record p
\* in place of index_of (used to build malformed buffers), <<0, 0, 0>> is none
EncodeRecord(h, nodes, p, ov) ==
  LET n == h[nodes[p]]
  IN <<HeaderByte(n)>>
     \o Concat([j \in 1..Len(n.children) |->
                  ToBytes(IF ov[1] = p /\ ov[2] = j THEN ov[3]
                          ELSE index_of(nodes, n.children[j]), 2)])
     \o RecordPayload(n)

EncodeHeader(count, rootIndex) ==
  MAGIC \o <<FORMAT_VERSION>> \o ToBytes(count, 2) \o ToBytes(rootIndex, 2)

EncodeTable(h, nodes, rootIndex, ov) ==
  EncodeHeader(Len(nodes), rootIndex)
  \o Concat([p \in 1..Len(nodes) |-> EncodeRecord(h, nodes, p, ov)])

serialize(h, r) ==
  LET nodes == NodeTable(h, r)
  IN IF \A p \in 1..Len(nodes) : RecordFits(h[nodes[p]])
       THEN [k |-> "ok", bytes |-> EncodeTable(h, nodes, index_of(nodes, r), <<0, 0, 0>>)]
       ELSE [k |-> "raise", exc |-> "OverflowError", msg |-> ""]

-----------------------------------------------------------------------------
(* deserialize: xi_deserialize.py *)
Raise(exc, msg) == [k |-> "raise", exc |-> exc, msg |-> msg]

\* data[pos] on a bytes object: IndexError past the end
InRange(data, pos) == pos < Len(data)

\* the length check at the head of deserialize
TooShort(data) == Len(data) < 7
BadMagic(data) == Slice(data, 0, 2) # MAGIC
BadVersion(data) == data[3] # FORMAT_VERSION

\* tag_map
KnownTag(tag_val) == tag_val \in 0..9

\* the payload of a PRIM record, read at pos (just after the prim_op byte)
ReadPrimData(data, prim_op, pos) ==
  IF prim_op = INT_LIT
    THEN [k |-> "ok", data |-> DInt(FromBytesSigned(Slice(data, pos, pos + 8))), pos |-> pos + 8]
  ELSE IF prim_op = FLOAT_LIT
    THEN IF Len(Slice(data, pos, pos + 8)) = 8
           THEN [k |-> "ok", data |-> DFloat(Slice(data, pos, pos + 8)), pos |-> pos + 8]
           ELSE Raise("struct.error", "unpack requires a buffer of 8 bytes")
  ELSE IF prim_op = STR_LIT
    THEN LET str_len == FromBytes(Slice(data, pos, pos + 2))
             dec == Utf8Decode(Slice(data, pos + 2, pos + 2 + str_len))
         IN IF dec.ok
              THEN [k |-> "ok", data |-> DStr(dec.s), pos |-> pos + 2 + str_len]
              ELSE Raise("UnicodeDecodeError", "")
  ELSE IF prim_op = VAR
    THEN [k |-> "ok", data |-> DInt(FromBytes(Slice(data, pos, pos + 2))), pos |-> pos + 2]
  ELSE [k |-> "ok", data |-> DNone, pos |-> pos]

\* one pass of the loop body: the record at pos; node.children holds the raw
\* child indices (node._child_indices) until they are resolved
ReadNode(data, pos0) ==
  LET tag_arity == data[pos0 + 1]
      tag_val == (tag_arity \div 16) % 16
      arity == tag_arity % 16
      child_indices == [j \in 1..arity |->
                          FromBytes(Slice(data, pos0 + 1 + 2 * (j - 1), pos0 + 1 + 2 * j))]
      pos == pos0 + 1 + 2 * arity
  IN IF ~KnownTag(tag_val) THEN Raise("DeserializeError", "Unknown tag")
     ELSE IF tag_val = PRIM
       THEN IF ~InRange(data, pos) THEN Raise("IndexError", "index out of range")
            ELSE LET pd == ReadPrimData(data, data[pos + 1], pos + 1)
                 IN IF pd.k = "raise" THEN pd
                    ELSE [k |-> "ok", pos |-> pd.pos,
                          node |-> Node(PRIM, child_indices, data[pos + 1], pd.data, 0, 0)]
     ELSE IF tag_val = UNI
       THEN [k |-> "ok", pos |-> pos + 2,
             node |-> Node(UNI, child_indices, NoOp, DNone, 0,
                           FromBytes(Slice(data, pos, pos + 2)))]
     ELSE IF tag_val = EFF
       THEN IF ~InRange(data, pos) THEN Raise("IndexError", "index out of range")
            ELSE [k |-> "ok", pos |-> pos + 1,
                  node |-> Node(EFF, child_indices, NoOp, DNone, data[pos + 1], 0)]
     ELSE [k |-> "ok", pos |-> pos, node |-> Node(tag_val, child_indices, NoOp, DNone, 0, 0)]

\* for i in range(node_count): ...
RECURSIVE ReadNodes(_, _, _, _, _)
ReadNodes(data, pos, i, node_count, nodes) ==
  IF i = node_count THEN [k |-> "ok", nodes |-> nodes]
  ELSE IF pos >= Len(data) THEN Raise("DeserializeError", "Unexpected EOF")
  ELSE LET r == ReadNode(data, pos)
       IN IF r.k = "raise" THEN r
          ELSE ReadNodes(data, r.pos, i + 1, node_count, Append(nodes, r.node))

\* nodes[idx] on a list: IndexError at or past its length
ListIndexOk(nodes, idx) == idx < Len(nodes)

\* "Resolve indices -> references" and "return nodes[root_index]": the result
\* is a fresh heap with the root's position (children become positions)
Resolve(nodes, root_index) ==
  IF \E p \in 1..Len(nodes) : \E j \in 1..Len(nodes[p].children) :
        ~ListIndexOk(nodes, nodes[p].children[j])
    THEN Raise("IndexError", "list index out of range")
  ELSE IF ~ListIndexOk(nodes, root_index)
    THEN Raise("IndexError", "list index out of range")
  ELSE [k |-> "ok",
        heap |-> [p \in 1..Len(nodes) |->
                    [nodes[p] EXCEPT !.children = [j \in 1..Len(@) |-> @[j] + 1]]],
        root |-> root_index + 1]

\* deserialize with the magic test made before the length test
deserialize_MagicFirst(data) ==
  IF BadMagic(data) THEN Raise("DeserializeError", "Invalid magic")
  ELSE IF TooShort(data) THEN Raise("DeserializeError", "File too short")
  ELSE IF BadVersion(data) THEN Raise("DeserializeError", "Unsupported version")
  ELSE LET node_count == FromBytes(Slice(data, 3, 5))
           root_index == FromBytes(Slice(data, 5, 7))
           r == ReadNodes(data, 7, 0, node_count, <<>>)
       IN IF r.k = "raise" THEN r ELSE Resolve(r.nodes, root_index)

deserialize(data) ==
  IF TooShort(data) THEN Raise("DeserializeError", "File too short")
  ELSE IF BadMagic(data) THEN Raise("DeserializeError", "Invalid magic")
  ELSE IF BadVersion(data) THEN Raise("DeserializeError", "Unsupported version")
  ELSE LET node_count == FromBytes(Slice(data, 3, 5))
           root_index == FromBytes(Slice(data, 5, 7))
           r == ReadNodes(data, 7, 0, node_count, <<>>)
       IN IF r.k = "raise" THEN r ELSE Resolve(r.nodes, root_index)

-----------------------------------------------------------------------------
(* The builder calls that allocate nodes, shared by every specification *)
MaxNodes == 3

Building == phase = "build"
AllocWithin(n, max) ==
  /\ Building
  /\ Len(heap) < max
  /\ heap' = Append(heap, n)
  /\ UNCHANGED <<phase, root, input, output>>
Alloc(n) == AllocWithin(n, MaxNodes)

Ids == 1..Len(heap)

InitBuild ==
  /\ heap = <<>>
  /\ phase = "build"
  /\ root = 0
  /\ input = <<>>
  /\ output = None

-----------------------------------------------------------------------------
(* Codec specification: build a graph, serialize a root, hand deserialize  *)
(* the bytes, a truncation of them or a buffer with a changed header or    *)
(* index field.                                                            *)
Take(b, n) == SubSeq(b, 1, n)

\* the serialization with another magic or version in its header
WithHeader(b, magic, version) == magic \o <<version>> \o SubSeq(b, 4, Len(b))

BadHeaders(b) ==
  { WithHeader(b, hv[1], hv[2]) :
      hv \in {<<(<<0, 0>>), 1>>, <<(<<206, 0>>), 2>>, <<MAGIC, 2>>, <<MAGIC, 0>>} }

\* the buffers handed to deserialize for the graph at r
Buffers(h, r) ==
  LET nodes == NodeTable(h, r)
      ser == serialize(h, r).bytes
  IN {ser}
     \cup { Take(ser, n) : n \in 0..(Len(ser) - 1) }
     \cup { Take(b, n) : b \in BadHeaders(ser), n \in {2, 6, 7, Len(ser)} }
     \cup { EncodeTable(h, nodes, ri, <<0, 0, 0>>) : ri \in 0..(Len(nodes) + 1) }
     \cup { EncodeTable(h, nodes, index_of(nodes, r), <<p, j, v>>) :
              p \in 1..Len(nodes), j \in 1..2, v \in 0..Len(nodes) }

\* binary = serialize(node)
Serialize(r) ==
  /\ Building
  /\ r \in Ids
  /\ phase' = "serialized"
  /\ root' = r
  /\ output' = serialize(heap, r)
  /\ UNCHANGED <<heap, input>>

\* restored = deserialize(data)
Deserialize(data) ==
  /\ phase = "serialized"
  /\ output.k = "ok"
  /\ phase' = "deserialized"
  /\ input' = data
  /\ output' = deserialize(data)
  /\ UNCHANGED <<heap, root>>

NextCodec ==
  \/ \E v \in {-7} : Alloc(B_int_lit(v))
  \/ \E s \in {<<104, 233>>} : Alloc(B_str_lit(s))
  \/ \E i \in {1} : Alloc(B_var(i))
  \/ \E op \in {INT_ADD} : Alloc(B_prim(op))
  \/ \E i \in {1} : Alloc(N_constr(i))
  \/ \E n \in {2} : Alloc(N_match(n))
  \/ \E l \in {3} : Alloc(B_universe(l))
  \/ \E f \in Ids, a \in Ids : Alloc(B_app(f, a))
  \/ \E t \in Ids, b \in Ids : Alloc(B_lam(t, b))
  \/ \E e \in Ids : Alloc(B_effect(e, EFFECT_IO))
  \/ \E r \in Ids : Serialize(r)
  \/ /\ phase = "serialized"
     /\ \E data \in Buffers(heap, root) : Deserialize(data)

SpecCodec == InitBuild /\ [][NextCodec]_vars

-----------------------------------------------------------------------------
(* Claims about the codec, checked under SpecCodec *)
Deserialized == phase = "deserialized"
IsCodecError(r) == r.k = "raise" /\ r.exc = "DeserializeError"
WellFormedHeader(b) == Len(b) >= 7 /\ Take(b, 2) = MAGIC /\ b[3] = FORMAT_VERSION
DeclaredCount(b) == b[4] * 256 + b[5]
DeclaredRoot(b) == b[6] * 256 + b[7]
IsStrictPrefix(p, b) == Len(p) < Len(b) /\ p = Take(b, Len(p))

\* C1: the round trip keeps the content hash: for every graph n,
\* content_hash(deserialize(serialize(n))) = content_hash(n).
C1_RoundTripKeepsHash ==
  (Deserialized /\ input = serialize(heap, root).bytes)
    => /\ output.k = "ok"
       /\ content_hash(output.heap, output.root) = content_hash(heap, root)

\* C5: a declared root index at or beyond the number of nodes of the table
\* makes deserialize raise DeserializeError, never another error or a node.
C5_RootIndexRejected ==
  (Deserialized /\ WellFormedHeader(input) /\ DeclaredRoot(input) >= DeclaredCount(input))
    => IsCodecError(output)

\* C6: a record holding a child index at or beyond its own position makes
\* deserialize raise a codec error, so every returned graph has each child
\* before its parent.
C6_ForwardChildRejected ==
  /\ (Deserialized /\ output.k = "ok")
       => \A p \in 1..Len(output.heap) :
            \A j \in 1..Len(output.heap[p].children) : output.heap[p].children[j] < p
  /\ (Deserialized /\ WellFormedHeader(input))
       => LET t == ReadNodes(input, 7, 0, DeclaredCount(input), <<>>)
          IN (t.k = "ok" /\ \E p \in 1..Len(t.nodes) :
                               \E j \in 1..Len(t.nodes[p].children) :
                                 t.nodes[p].children[j] >= p - 1)
               => IsCodecError(output)

\* C7: every strict prefix of a valid serialization makes deserialize raise
\* DeserializeError.
C7_TruncatedRejected ==
  (Deserialized /\ IsStrictPrefix(input, serialize(heap, root).bytes))
    => IsCodecError(output)

\* C8: buffers shorter than 7 bytes, then buffers with a wrong magic, then
\* buffers with a version other than 1 are rejected, in that order, each with
\* its own DeserializeError message and without any node being built.
C8_HeaderChecksInOrder ==
  Deserialized =>
    /\ Len(input) < 7 => output = Raise("DeserializeError", "File too short")
    /\ (Len(input) >= 7 /\ Take(input, 2) # <<206, 158>>)
         => output = Raise("DeserializeError", "Invalid magic")
    /\ (Len(input) >= 7 /\ Take(input, 2) = <<206, 158>> /\ input[3] # 1)
         => output = Raise("DeserializeError", "Unsupported version")

\* a short buffer that also has a wrong magic was handed to deserialize
C8_Witness ==
  /\ Deserialized
  /\ Len(input) = 6
  /\ Take(input, 2) # <<206, 158>>
  /\ input[3] # 1
  /\ IsCodecError(output)

-----------------------------------------------------------------------------
(* Python values the evaluators return, and the operators _apply_unary and *)
(* _apply_binary hand them to.  A bool is an int (True = 1); a Node or a   *)
(* Constructor is truthy and has no len(), no ordering and no arithmetic.  *)
PyNone == [k |-> "None"]
VInt(i) == [k |-> "int", i |-> i]
VBool(b) == [k |-> "bool", b |-> b]
VStr(s) == [k |-> "str", s |-> s]
VFloat(bits) == [k |-> "float", bits |-> bits]
VNode(n) == [k |-> "node", n |-> n]
\* Constructor(index, args): index is the payload of the constructor primitive
VConstr(index, args) == [k |-> "constr", index |-> index, args |-> args]

XiError(msg) == Raise("XiError", msg)
TypeError == Raise("TypeError", "")
ZeroDivisionError == Raise("ZeroDivisionError", "")
\* str() of a Node (the dataclass repr) and %-formatting are not modelled
NotModelled == Raise("NotModelled", "")

IsNum(v) == v.k \in {"int", "bool"}
Num(v) == IF v.k = "bool" THEN (IF v.b THEN 1 ELSE 0) ELSE v.i

\* bool(value)
Truthy(v) ==
  CASE v.k = "int" -> v.i # 0
    [] v.k = "bool" -> v.b
    [] v.k = "str" -> v.s # <<>>
    [] v.k = "None" -> FALSE
    [] OTHER -> TRUE

\* x // y and x % y on ints (y # 0): the quotient is rounded down
FloorDiv(x, y) == IF y > 0 THEN x \div y ELSE (0 - x) \div (0 - y)
PyMod(x, y) == x - y * FloorDiv(x, y)

RECURSIVE Digits(_)
Digits(n) == IF n < 10 THEN <<48 + n>> ELSE Append(Digits(n \div 10), 48 + (n % 10))
\* str(n) for an int
IntToStr(n) == IF n < 0 THEN <<45>> \o Digits(0 - n) ELSE Digits(n)

\* str(value)
PyStr(v) ==
  CASE v.k = "int" -> IntToStr(v.i)
    [] v.k = "bool" -> IF v.b THEN <<84, 114, 117, 101>> ELSE <<70, 97, 108, 115, 101>>
    [] v.k = "str" -> v.s
    [] v.k = "None" -> <<78, 111, 110, 101>>

Repeat(s, n) ==
  IF n <= 0 \/ s = <<>> THEN <<>>
  ELSE [i \in 1..(Len(s) * n) |-> s[((i - 1) % Len(s)) + 1]]

\* a < b on str: by code point, a proper prefix is smaller
RECURSIVE StrLt(_, _)
StrLt(a, b) ==
  IF b = <<>> THEN FALSE
  ELSE IF a = <<>> THEN TRUE
  ELSE IF a[1] # b[1] THEN a[1] < b[1]
  ELSE StrLt(Tail(a), Tail(b))

\* Node.__eq__ of the dataclass: field by field, with Python's == on data
DataEq(d1, d2) ==
  IF IsIntData(d1) /\ IsIntData(d2) THEN IntOf(d1) = IntOf(d2)
  ELSE d1.k = d2.k /\ d1 = d2

RECURSIVE NodeEq(_, _)
NodeEq(a, b) ==
  /\ a.tag = b.tag
  /\ Len(a.children) = Len(b.children)
  /\ \A i \in 1..Len(a.children) : NodeEq(a.children[i], b.children[i])
  /\ a.prim_op = b.prim_op
  /\ DataEq(a.data, b.data)
  /\ a.effect = b.effect
  /\ a.universe_level = b.universe_level

\* x == y; two Constructor objects are equal only if they are the same object
PyEq(x, y) ==
  CASE IsNum(x) /\ IsNum(y) -> Num(x) = Num(y)
    [] x.k = "str" /\ y.k = "str" -> x.s = y.s
    [] x.k = "None" /\ y.k = "None" -> TRUE
    [] x.k = "node" /\ y.k = "node" -> NodeEq(x.n, y.n)
    [] OTHER -> FALSE

apply_unary(op, val) ==
  CASE op = PRINT -> PyNone
    [] op = INT_NEG -> IF IsNum(val) THEN VInt(0 - Num(val)) ELSE TypeError
    [] op = BOOL_NOT -> VBool(~Truthy(val))
    [] op = STR_LEN -> IF val.k = "str" THEN VInt(Len(val.s)) ELSE TypeError
    [] OTHER -> XiError("Unknown unary op")

apply_binary(op, a, b) ==
  LET nums == IsNum(a) /\ IsNum(b)
      strs == a.k = "str" /\ b.k = "str"
  IN CASE op = INT_ADD ->
            IF nums THEN VInt(Num(a) + Num(b))
            ELSE IF strs THEN VStr(a.s \o b.s) ELSE TypeError
       [] op = INT_SUB -> IF nums THEN VInt(Num(a) - Num(b)) ELSE TypeError
       [] op = INT_MUL ->
            IF nums THEN VInt(Num(a) * Num(b))
            ELSE IF a.k = "str" /\ IsNum(b) THEN VStr(Repeat(a.s, Num(b)))
            ELSE IF IsNum(a) /\ b.k = "str" THEN VStr(Repeat(b.s, Num(a)))
            ELSE TypeError
       [] op = INT_DIV ->
            IF ~nums THEN TypeError
            ELSE IF Num(b) = 0 THEN ZeroDivisionError
            ELSE VInt(FloorDiv(Num(a), Num(b)))
       [] op = INT_MOD ->
            IF a.k = "str"
              THEN IF \E i \in 1..Len(a.s) : a.s[i] = 37 THEN NotModelled ELSE TypeError
            ELSE IF ~nums THEN TypeError
            ELSE IF Num(b) = 0 THEN ZeroDivisionError
            ELSE VInt(PyMod(Num(a), Num(b)))
       [] op = INT_EQ -> VBool(PyEq(a, b))
       [] op = INT_LT ->
            IF nums THEN VBool(Num(a) < Num(b))
            ELSE IF strs THEN VBool(StrLt(a.s, b.s)) ELSE TypeError
       [] op = INT_GT ->
            IF nums THEN VBool(Num(a) > Num(b))
            ELSE IF strs THEN VBool(StrLt(b.s, a.s)) ELSE TypeError
       [] op = BOOL_AND -> IF Truthy(a) THEN b ELSE a
       [] op = BOOL_OR -> IF Truthy(a) THEN a ELSE b
       [] op = STR_CONCAT ->
            IF a.k \in {"node", "constr", "float"} \/ b.k \in {"node", "constr", "float"}
              THEN NotModelled
              ELSE VStr(PyStr(a) \o PyStr(b))
       [] OTHER -> XiError("Unknown binary op")

-----------------------------------------------------------------------------
(* Interpreter (xi.py) and MatchInterpreter (xi_match.py).  The evaluators *)
(* read no object identity, so they run on terms: node records whose       *)
(* children are node records.  A run returns [v, c]: the value returned or *)
(* the exception raised, and self.reductions afterwards.  d is the number  *)
(* of nested _eval calls Python's recursion limit still allows.            *)
Ret(v, c) == [v |-> v, c |-> c]
Raised(r) == r.v.k = "raise"

\* if self.reductions > 5_000_000
ReductionLimit == 5000000

\* the value of a literal's payload
DataValue(d) ==
  CASE d.k = "int" -> VInt(d.i)
    [] d.k = "bool" -> VBool(d.b)
    [] d.k = "str" -> VStr(d.s)
    [] d.k = "float" -> VFloat(d.bits)
    [] OTHER -> PyNone

\* f"U{n.universe_level}" with U+1D4B0
UniverseName(level) == <<119984>> \o IntToStr(level)

\* the Tag.PRIM branch of _eval, the same in both evaluators
EvalPrim(n) ==
  CASE n.prim_op \in {STR_LIT, INT_LIT, FLOAT_LIT} -> DataValue(n.data)
    [] n.prim_op = UNIT -> PyNone
    [] n.prim_op = BOOL_TRUE -> VBool(TRUE)
    [] n.prim_op = BOOL_FALSE -> VBool(FALSE)
    [] n.prim_op = VAR -> XiError("Unbound variable")
    [] OTHER -> VNode(n)

\* a substitution that leaves the term as it is
substitute_Nothing(node, idx, val) == node

\* a substitution that keeps the same target under every binder
RECURSIVE substitute_SameTarget(_, _, _)
substitute_SameTarget(node, idx, val) ==
  IF node.tag = PRIM /\ node.prim_op = VAR
    THEN IF IntOf(node.data) = idx THEN val
         ELSE IF IntOf(node.data) > idx
           THEN Node(PRIM, <<>>, VAR, DInt(IntOf(node.data) - 1), 0, 0)
         ELSE node
    ELSE [node EXCEPT !.children =
            [i \in 1..Len(node.children) |->
               substitute_SameTarget(node.children[i], idx, val)]]

RECURSIVE substitute(_, _, _)
substitute(node, idx, val) ==
  IF node.tag = PRIM /\ node.prim_op = VAR
    THEN IF IntOf(node.data) = idx THEN val
         ELSE IF IntOf(node.data) > idx
           THEN Node(PRIM, <<>>, VAR, DInt(IntOf(node.data) - 1), 0, 0)
         ELSE node
    \* Node(n.tag, new_children, n.prim_op, n.data, n.effect, n.universe_level)
    ELSE [node EXCEPT !.children =
            [i \in 1..Len(node.children) |->
               substitute(node.children[i],
                          IF node.tag \in {LAM, FIX} /\ i = 2 THEN idx + 1 ELSE idx,
                          val)]]

\* the arguments and the head of an application chain @(@(head, a1), a2)
RECURSIVE ChainArgs(_)
ChainArgs(node) ==
  IF node.tag = APP THEN Append(ChainArgs(node.children[1]), node.children[2]) ELSE <<>>

RECURSIVE ChainHead(_)
ChainHead(node) == IF node.tag = APP THEN ChainHead(node.children[1]) ELSE node

RECURSIVE ApplyAll(_, _)
ApplyAll(f, args) ==
  IF args = <<>> THEN f ELSE ApplyAll(B_app(f, Head(args)), Tail(args))

\* constr(index, *args) with the payload as stored; match_expr(scrutinee, branches)
constr_of(data, args) == ApplyAll(Node(PRIM, <<>>, CONSTR, data, 0, 0), args)
constr(index, args) == constr_of(DInt(index), args)
match_expr(scrutinee, branches) == ApplyAll(B_app(N_match(Len(branches)), scrutinee), branches)

\* Interpreter._to_node: isinstance(value, int) is tested before bool, so a
\* bool becomes an INT_LIT node carrying the bool
to_node(value) ==
  CASE value.k = "node" -> value.n
    [] value.k = "int" -> B_int_lit(value.i)
    [] value.k = "bool" -> Node(PRIM, <<>>, INT_LIT, DBool(value.b), 0, 0)
    [] value.k = "float" -> Node(PRIM, <<>>, FLOAT_LIT, DFloat(value.bits), 0, 0)
    [] value.k = "str" -> B_str_lit(value.s)
    [] OTHER -> B_unit

\* MatchInterpreter._to_node
MatchInterpreter_to_node(value) ==
  IF value.k = "constr" THEN constr_of(value.index, value.args) ELSE to_node(value)

is_constr_chain(node) ==
  ChainHead(node).tag = PRIM /\ ChainHead(node).prim_op = CONSTR

\* Constructor.from_node: None when the head is no constructor primitive
Constructor_from_node(node) ==
  IF is_constr_chain(node)
    THEN VConstr(ChainHead(node).data, ChainArgs(node))
    ELSE PyNone

\* len(apps) >= 1 + num
EnoughArgs(apps, num) == Len(apps) >= 1 + num

decompose_match(node) ==
  LET apps == ChainArgs(node)
      current == ChainHead(node)
  IN IF /\ current.tag = PRIM
        /\ current.prim_op = MATCH
        /\ EnoughArgs(apps, IntOf(current.data))
       THEN [found |-> TRUE, scrutinee |-> apps[1],
             branches |-> SubSeq(apps, 2, 1 + IntOf(current.data))]
       ELSE [found |-> FALSE, scrutinee |-> B_unit, branches |-> <<>>]

\* the (idx, args) _reduce_match reads off the scrutinee's value
MatchTarget(val) ==
  CASE val.k = "constr" -> val
    [] val.k = "node" ->
         IF Constructor_from_node(val.n).k = "constr"
           THEN Constructor_from_node(val.n)
           ELSE XiError("Match on non-constructor")
    [] val.k = "bool" -> VConstr(DInt(IF val.b THEN 0 ELSE 1), <<>>)
    [] val.k = "int" -> VConstr(DInt(val.i), <<>>)
    [] OTHER -> XiError("Match on non-constructor")

\* if idx < 0 or idx >= len(branches)
OutOfRange(idx, branches) == idx < 0 \/ idx >= Len(branches)

\* a selection that ignores the constructor index
SelectBranch_Last(branches, idx) == branches[Len(branches)]
SelectBranch_First(branches, idx) == branches[1]

\* result = branches[idx]
SelectBranch(branches, idx) == branches[idx + 1]

RECURSIVE MatchInterpreter_eval(_, _, _, _)
RECURSIVE MatchInterpreter_eval_app(_, _, _, _)
RECURSIVE reduce_match(_, _, _, _, _)
RECURSIVE EvalEach(_, _, _, _, _)

IsVar(t) == t.tag = PRIM /\ t.prim_op = VAR

\* no variable reaches past the Abstraction/Fixpoint binders around it
RECURSIVE ClosedUnder(_, _)
ClosedUnder(t, binders) ==
  IF IsVar(t) THEN IntOf(t.data) < binders
  ELSE \A i \in 1..Len(t.children) :
         ClosedUnder(t.children[i],
                     IF t.tag \in {LAM, FIX} /\ i = 2 THEN binders + 1 ELSE binders)
Closed(t) == ClosedUnder(t, 0)

\* an observer in the place of the hook: it stops the run at the first term
\* handed to self._eval that is not closed, and otherwise calls the original
watched_eval(hook, n, d, c) ==
  CASE ~Closed(n) -> Ret(Raise("NotClosed", ""), c)
    [] OTHER -> MatchInterpreter_eval(hook, n, d, c)

\* the hook SandboxedInterpreter.eval installs as interp._eval: it counts
\* the step, raises GasExhausted past the gas limit, then calls the original
counted_eval(hook, n, d, c) ==
  CASE d = 0 -> Ret(Raise("RecursionError", ""), c)
    [] d # 0 /\ c + 1 > hook.gas -> Ret(Raise("GasExhausted", ""), c)
    [] OTHER -> MatchInterpreter_eval(hook, n, d - 1, c)

\* self._eval(n): the instance attribute when a hook is installed (hook is
\* None without one), the method of the class otherwise
self_eval(hook, n, d, c) ==
  CASE hook = None -> MatchInterpreter_eval(hook, n, d, c)
    [] hook # None /\ "gas" \in DOMAIN hook -> counted_eval(hook, n, d, c)
    [] OTHER -> watched_eval(hook, n, d, c)

\* evaled = [self._to_node(self._eval(a)) for a in args]
EvalEach(hook, args, d, c, acc) ==
  IF args = <<>> THEN Ret([k |-> "list", items |-> acc], c)
  ELSE LET r == self_eval(hook, Head(args), d, c)
       IN IF Raised(r) THEN r
          ELSE EvalEach(hook, Tail(args), d, r.c,
                        Append(acc, MatchInterpreter_to_node(r.v)))

build_constructor(hook, node, d, c) ==
  LET r == EvalEach(hook, ChainArgs(node), d, c, <<>>)
  IN IF Raised(r) THEN r ELSE Ret(VConstr(ChainHead(node).data, r.v.items), r.c)

reduce_match(hook, scrutinee, branches, d, c) ==
  LET sv == self_eval(hook, scrutinee, d, c)
      t == MatchTarget(sv.v)
      \* the first of the method's exits that applies
      exit == IF Raised(sv) THEN "scrutinee raised"
              ELSE IF t.k = "raise" THEN "no constructor"
              ELSE IF ~IsIntData(t.index) THEN "no index"
              ELSE IF OutOfRange(IntOf(t.index), branches) THEN "out of range"
              ELSE "branch"
  IN CASE exit = "scrutinee raised" -> sv
       [] exit = "no constructor" -> Ret(t, sv.c)
       [] exit = "no index" -> Ret(TypeError, sv.c)
       [] exit = "out of range" -> Ret(XiError("Constructor out of range"), sv.c)
       [] exit = "branch" ->
            self_eval(hook, ApplyAll(SelectBranch(branches, IntOf(t.index)), t.args),
                      d, sv.c)

MatchInterpreter_eval_app(hook, n, d, c) ==
  LET func == n.children[1]
      arg == n.children[2]
      match_info == decompose_match(n)
      \* the first of the method's seven cases that applies
      rule == IF match_info.found THEN 1
              ELSE IF func.tag = PRIM /\ func.prim_op = CONSTR THEN 2
              ELSE IF is_constr_chain(func) THEN 3
              ELSE IF func.tag = LAM THEN 4
              ELSE IF func.tag = PRIM /\ func.prim_op # MATCH THEN 5
              ELSE IF /\ func.tag = APP
                      /\ func.children[1].tag = PRIM
                      /\ func.children[1].prim_op \notin {CONSTR, MATCH} THEN 6
              ELSE 7
      val == self_eval(hook, arg, d, c)
  IN CASE rule = 1 -> \* 1. match expression
            reduce_match(hook, match_info.scrutinee, match_info.branches, d, c)
       [] rule = 2 -> \* 2. direct constructor
            IF Raised(val) THEN val
            ELSE Ret(VConstr(func.data, <<MatchInterpreter_to_node(val.v)>>), val.c)
       [] rule = 3 -> \* 3. constructor chain: the chain's arguments first, then arg
            LET built == build_constructor(hook, func, d, c)
                last == self_eval(hook, arg, d, built.c)
            IN IF Raised(built) THEN built
               ELSE IF Raised(last) THEN last
               ELSE Ret(VConstr(built.v.index,
                                Append(built.v.args, MatchInterpreter_to_node(last.v))),
                        last.c)
       [] rule = 4 /\ Raised(val) -> val
       [] rule = 4 /\ ~Raised(val) -> \* 4. beta reduction
            self_eval(hook,
              substitute(func.children[2], 0, MatchInterpreter_to_node(val.v)),
              d, val.c)
       [] rule = 5 -> \* 5. unary primitive
            IF Raised(val) THEN val ELSE Ret(apply_unary(func.prim_op, val.v), val.c)
       [] rule = 6 -> \* 6. binary primitive
            LET lhs == self_eval(hook, func.children[2], d, val.c)
            IN IF Raised(val) THEN val
               ELSE IF Raised(lhs) THEN lhs
               ELSE Ret(apply_binary(func.children[1].prim_op, lhs.v, val.v), lhs.c)
       [] rule = 7 /\ Raised(val) -> val
       [] rule = 7 /\ ~Raised(val) -> \* 7. evaluate func, then retry
            LET evaled_func == self_eval(hook, func, d, val.c)
                then == IF Raised(evaled_func) THEN "raised"
                        ELSE IF evaled_func.v.k = "node" THEN "retry"
                        ELSE IF evaled_func.v.k = "constr" THEN "append"
                        ELSE "cannot apply"
            IN CASE then = "raised" -> evaled_func
                 [] then = "retry" ->
                      self_eval(hook,
                        B_app(evaled_func.v.n, MatchInterpreter_to_node(val.v)),
                        d, evaled_func.c)
                 [] then = "append" ->
                      Ret(VConstr(evaled_func.v.index,
                                  Append(evaled_func.v.args,
                                         MatchInterpreter_to_node(val.v))),
                          evaled_func.c)
                 [] then = "cannot apply" -> Ret(XiError("Cannot apply"), evaled_func.c)

MatchInterpreter_eval(hook, n, d, c) ==
  CASE d = 0 -> Ret(Raise("RecursionError", ""), c)
    [] d # 0 /\ c + 1 > ReductionLimit ->
         Ret(XiError("Reduction limit exceeded"), c + 1)
    [] d # 0 /\ c + 1 <= ReductionLimit /\ n.tag = EFF ->
         self_eval(hook, n.children[1], d - 1, c + 1)
    [] d # 0 /\ c + 1 <= ReductionLimit /\ n.tag = FIX ->
         self_eval(hook, substitute(n.children[2], 0, n), d - 1, c + 1)
    [] d # 0 /\ c + 1 <= ReductionLimit /\ n.tag = APP ->
         MatchInterpreter_eval_app(hook, n, d - 1, c + 1)
    [] d # 0 /\ c + 1 <= ReductionLimit /\ n.tag = PRIM -> Ret(EvalPrim(n), c + 1)
    [] d # 0 /\ c + 1 <= ReductionLimit /\ n.tag \in {LAM, PI, SIG, IND} ->
         Ret(VNode(n), c + 1)
    [] d # 0 /\ c + 1 <= ReductionLimit /\ n.tag = UNI ->
         Ret(VStr(UniverseName(n.universe_level)), c + 1)
    [] OTHER -> Ret(XiError("Cannot evaluate"), c + 1)

RECURSIVE Interpreter_eval(_, _, _)
Interpreter_eval(n, d, c) ==
  IF d = 0 THEN Ret(Raise("RecursionError", ""), c)
  ELSE CASE n.tag = EFF -> Interpreter_eval(n.children[1], d - 1, c + 1)
         [] n.tag = APP ->
              LET func == n.children[1]
                  arg == n.children[2]
                  val == Interpreter_eval(arg, d - 1, c + 1)
              IN IF Raised(val) THEN val
                 ELSE IF func.tag = PRIM
                   THEN Ret(apply_unary(func.prim_op, val.v), val.c)
                 ELSE IF func.tag = APP /\ func.children[1].tag = PRIM
                   THEN LET lhs == Interpreter_eval(func.children[2], d - 1, val.c)
                        IN IF Raised(lhs) THEN lhs
                           ELSE Ret(apply_binary(func.children[1].prim_op, lhs.v, val.v),
                                    lhs.c)
                 ELSE IF func.tag = LAM
                   THEN Interpreter_eval(
                          substitute(func.children[2], 0, to_node(val.v)), d - 1, val.c)
                 ELSE Ret(XiError("Cannot apply"), val.c)
         [] n.tag = PRIM -> Ret(EvalPrim(n), c + 1)
         [] n.tag = LAM -> Ret(VNode(n), c + 1)
         [] n.tag = FIX ->
              Interpreter_eval(substitute(n.children[2], 0, n), d - 1, c + 1)
         [] n.tag = UNI -> Ret(VStr(UniverseName(n.universe_level)), c + 1)
         [] n.tag = PI -> Ret(VNode(n), c + 1)
         [] OTHER -> Ret(XiError("Cannot evaluate"), c + 1)

\* the nested _eval calls the recursion limit allows
MaxDepth == 12

\* Interpreter.run: self.reductions = 0; return self._eval(node)
Interpreter_run(node) == Interpreter_eval(node, MaxDepth, 0)
MatchInterpreter_run(node) == self_eval(None, node, MaxDepth, 0)

-----------------------------------------------------------------------------
(* SandboxedInterpreter (xi_sandbox.py) built with SandboxConfig(gas=G):   *)
(* the other limits keep their defaults, no capability is granted,         *)
(* pure_only is off, and the run stays below the wall-clock timeout, which *)
(* is only looked at on every 200th step.                                  *)
max_nodes == 50000
nat_to_int_limit == 100000

\* _required_capabilities; no node here carries a PrimOp as its data, the
\* other way the code has of asking for "io"
RECURSIVE required_capabilities(_)
required_capabilities(node) ==
  (IF node.tag = EFF THEN {"io"} ELSE {})
  \cup UNION { required_capabilities(node.children[j]) : j \in 1..Len(node.children) }

\* _count_nodes, summed over a list of nodes: shared nodes count once per use
RECURSIVE count_nodes(_)
count_nodes(nodes) ==
  IF nodes = <<>> THEN 0
  ELSE 1 + count_nodes(Head(nodes).children) + count_nodes(Tail(nodes))

\* nat_to_int(interp, val) from the loop state (current, count, limit); by
\* now interp._eval is the original method again
RECURSIVE nat_to_int(_, _, _)
nat_to_int(current, count, limit) ==
  IF limit = 0 THEN VInt(count)
  ELSE CASE current.k = "constr" ->
              IF IsIntData(current.index) /\ IntOf(current.index) = 0 THEN VInt(count)
              ELSE IF IsIntData(current.index) /\ IntOf(current.index) = 1
                THEN IF current.args = <<>> THEN VInt(count + 1)
                     ELSE LET r == self_eval(None, current.args[1], MaxDepth, 0)
                          IN IF Raised(r) THEN r.v
                             ELSE nat_to_int(r.v, count + 1, limit - 1)
              ELSE VInt(count)
         [] current.k = "node" ->
              IF Constructor_from_node(current.n).k = "constr"
                THEN nat_to_int(Constructor_from_node(current.n), count, limit - 1)
                ELSE VInt(count)
         [] IsNum(current) -> VInt(count + Num(current))
         [] OTHER -> VInt(count)

\* str(result) of a Node: the dataclass repr, kept as the node it prints
VRepr(n) == [k |-> "repr", of |-> n]

\* _extract_value; the except branch reads result.name, which no
\* Constructor has
extract_value(result) ==
  CASE result.k \in {"int", "str", "bool", "float"} -> result
    [] result.k = "constr" ->
         IF nat_to_int(result, 0, nat_to_int_limit).k = "raise"
           THEN Raise("AttributeError", "")
           ELSE nat_to_int(result, 0, nat_to_int_limit)
    [] result.k = "node" ->
         IF result.n.data # DNone THEN DataValue(result.n.data) ELSE VRepr(result.n)
    [] OTHER -> VStr(PyStr(result))

\* SandboxedInterpreter(SandboxConfig(gas=gas)).eval(node): [v, c] with the
\* value returned or the exception raised and the steps that were run
SandboxedInterpreter_eval(node, gas) ==
  IF required_capabilities(node) # {} THEN Ret(Raise("CapabilityDenied", "io"), 0)
  ELSE IF count_nodes(<<node>>) > max_nodes THEN Ret(Raise("MemoryExceeded", ""), 0)
  ELSE LET r == self_eval([gas |-> gas], node, MaxDepth, 0)
       IN IF Raised(r) THEN r ELSE Ret(extract_value(r.v), r.c)

-----------------------------------------------------------------------------
(* Evaluator specification: an application chain is built with B.app from  *)
(* a head and up to MaxArgs arguments, then handed to MatchInterpreter.run *)
(* or Interpreter.run.                                                     *)
MaxArgs == 3
MaxGas == 8
\* the gas limits tried: every small one, and one that is out of reach of a
\* run nested MaxDepth / 2 steps deep but within reach of one nested MaxDepth
GasLimits == (0..MaxGas) \cup {3 * MaxGas}

Identity == B_lam(B_universe(0), B_var(0))
Seven == B_int_lit(7)

EvalHeads ==
  { N_match(0), N_match(1), N_match(2), B_prim(INT_ADD), B_prim(INT_NEG), Identity,
    B_pi(B_universe(0), B_universe(0)), N_sig(B_universe(0), B_universe(0)), N_ind,
    B_universe(1), B_effect(Identity, EFFECT_IO) }

EvalArgs ==
  { Seven, B_int_lit(1), constr(0, <<>>), constr(1, <<Seven>>), constr(2, <<Seven, Seven>>),
    B_app(Identity, constr(1, <<Seven>>)), Identity, B_prim(INT_NEG) }

InitEval ==
  /\ heap = <<>>
  /\ phase = "build"
  /\ root = 0
  /\ input \in EvalHeads
  /\ output = None

\* input = B.app(input, a)
ApplyArg(a) ==
  /\ Building
  /\ Len(ChainArgs(input)) < MaxArgs
  /\ input' = B_app(input, a)
  /\ UNCHANGED <<heap, phase, root, output>>

\* MatchInterpreter().run(input)
RunMatch ==
  /\ Building
  /\ phase' = "evaluated"
  /\ output' = [by |-> "MatchInterpreter", r |-> MatchInterpreter_run(input)]
  /\ UNCHANGED <<heap, root, input>>

\* Interpreter().run(input)
RunBase ==
  /\ Building
  /\ phase' = "evaluated"
  /\ output' = [by |-> "Interpreter", r |-> Interpreter_run(input)]
  /\ UNCHANGED <<heap, root, input>>

\* SandboxedInterpreter(SandboxConfig(gas=gas)).eval(input)
RunSandboxed(gas) ==
  /\ Building
  /\ phase' = "sandboxed"
  /\ output' = [by |-> "SandboxedInterpreter", gas |-> gas,
                r |-> SandboxedInterpreter_eval(input, gas)]
  /\ UNCHANGED <<heap, root, input>>

NextEval ==
  \/ \E a \in EvalArgs : ApplyArg(a)
  \/ RunMatch
  \/ RunBase
  \/ \E gas \in GasLimits : RunSandboxed(gas)

SpecEval == InitEval /\ [][NextEval]_vars

-----------------------------------------------------------------------------
(* Claims about the evaluators *)
Evaluated == phase = "evaluated"
ByMatch == Evaluated /\ output.by = "MatchInterpreter"

IsMatchChain(t) == ChainHead(t).tag = PRIM /\ ChainHead(t).prim_op = MATCH
DeclaredBranches(t) == IntOf(ChainHead(t).data)
\* the chain supplies the scrutinee and exactly the declared branches
ExactMatch(t) == IsMatchChain(t) /\ Len(ChainArgs(t)) = 1 + DeclaredBranches(t)
ScrutineeOf(t) == ChainArgs(t)[1]
BranchesOf(t) == SubSeq(ChainArgs(t), 2, Len(ChainArgs(t)))

\* the constructor value (i, a1..ak) a value stands for, PyNone if it is none
AsConstructor(v) ==
  CASE v.k = "constr" -> v
    [] v.k = "node" -> Constructor_from_node(v.n)
    [] OTHER -> PyNone

ScrutineeValue(t) == AsConstructor(MatchInterpreter_run(ScrutineeOf(t)).v)

\* C3: for a match expression with N branches whose scrutinee reduces to the
\* constructor value (i, a1..ak), evaluation fails with an evaluation error
\* when i >= N, and otherwise its result is the result of evaluating
\* branches[i] applied in turn to a1..ak.
C3_MatchSelectsBranch ==
  (ByMatch /\ ExactMatch(input) /\ ScrutineeValue(input).k = "constr")
    => LET i == IntOf(ScrutineeValue(input).index)
           args == ScrutineeValue(input).args
           branches == BranchesOf(input)
       IN IF i >= Len(branches)
            THEN output.r.v.k = "raise" /\ output.r.v.exc = "XiError"
            ELSE output.r.v = MatchInterpreter_run(ApplyAll(branches[i + 1], args)).v

\* a match on constructor 1 carrying an argument, with two branches, returned a value
C3_Witness ==
  /\ ByMatch
  /\ ExactMatch(input)
  /\ DeclaredBranches(input) = 2
  /\ ScrutineeValue(input).k = "constr"
  /\ IntOf(ScrutineeValue(input).index) = 1
  /\ ScrutineeValue(input).args = <<Seven>>
  /\ output.r.v = VInt(7)

\* C4: a chain whose head is the match primitive declaring N branches is
\* reduced by match decomposition only when it supplies exactly 1+N
\* arguments; with another number of arguments it is not reduced as that match.
C4_MatchNeedsExactArgs ==
  (ByMatch /\ IsMatchChain(input))
    => (decompose_match(input).found <=> ExactMatch(input))

NonFunctionHead(t) == ChainHead(t).tag \in {PI, SIG, IND}
UnderAppliedMatch(t) == IsMatchChain(t) /\ Len(ChainArgs(t)) < 1 + DeclaredBranches(t)
ArgsEvaluate(t) ==
  \A i \in 1..Len(ChainArgs(t)) :
    IF output.by = "MatchInterpreter"
      THEN ~Raised(MatchInterpreter_run(ChainArgs(t)[i]))
      ELSE ~Raised(Interpreter_run(ChainArgs(t)[i]))

\* C9: applying a value that is not a function (a DependentProduct,
\* DependentSum or Inductive node, or a match primitive with too few
\* arguments) ends at once with the evaluation error "cannot apply"; the
\* fallback rule never retries the same application without bound.
C9_NonFunctionFailsAtOnce ==
  (/\ Evaluated
   /\ input.tag = APP
   /\ ArgsEvaluate(input)
   /\ \/ NonFunctionHead(input)
      \/ output.by = "MatchInterpreter" /\ UnderAppliedMatch(input))
    => output.r.v = XiError("Cannot apply")

\* the binary operators of _apply_binary
BinaryOps ==
  { INT_ADD, INT_SUB, INT_MUL, INT_DIV, INT_MOD, INT_EQ, INT_LT, INT_GT,
    BOOL_AND, BOOL_OR, STR_CONCAT }

IsOperation(t) == t.tag = PRIM /\ EvalPrim(t) = VNode(t)
IsPartialApplication(t) ==
  /\ t.tag = APP
  /\ t.children[1].tag = PRIM
  /\ t.children[1].prim_op \in BinaryOps
  /\ t.children[2].tag = PRIM
  /\ t.children[2].prim_op = INT_LIT

\* C10: evaluating an unapplied primitive-operation node, or a binary
\* primitive applied to only its first argument, returns it as a value
\* without raising an error.
C10_PartialApplicationIsValue ==
  (Evaluated /\ (IsOperation(input) \/ IsPartialApplication(input)))
    => output.r.v = VNode(input)

\* C11: evaluating an unapplied Abstraction, DependentProduct, DependentSum
\* or Universe node returns that same node unchanged as the value.
C11_UnappliedReturnedAsIs ==
  (Evaluated /\ input.tag \in {LAM, PI, SIG, UNI}) => output.r.v = VNode(input)

\* the calls of the step function the evaluation of t takes without a sandbox
StepsOf(t) == MatchInterpreter_run(t).c

\* C20: for a program whose evaluation by MatchInterpreter takes s calls of
\* the step function, SandboxedInterpreter.eval with gas limit G raises
\* GasExhausted if and only if s > G and never lets more than G steps run;
\* when s <= G the value or the evaluation error is the same as without
\* the sandbox.
C20_GasOnlyCutsShort ==
  phase = "sandboxed"
    => /\ (output.r.v = Raise("GasExhausted", "")) <=> (StepsOf(input) > output.gas)
       /\ output.r.c <= output.gas
       /\ StepsOf(input) <= output.gas => output.r.v = MatchInterpreter_run(input).v

-----------------------------------------------------------------------------
(* xi_optimizer.py.  The passes compare and cache nodes by id(), so they   *)
(* run on the heap; a node they build is appended to it.                   *)
FOLDABLE_BINARY ==
  { INT_ADD, INT_SUB, INT_MUL, INT_DIV, INT_MOD, INT_LT, INT_GT, INT_EQ, STR_CONCAT }
FOLDABLE_UNARY == { INT_NEG, BOOL_NOT, STR_LEN }

is_literal(node) ==
  /\ node.tag = PRIM
  /\ node.prim_op \in {INT_LIT, STR_LIT, FLOAT_LIT, BOOL_TRUE, BOOL_FALSE, UNIT}

literal_value(node) ==
  CASE node.prim_op \in {INT_LIT, STR_LIT, FLOAT_LIT} -> DataValue(node.data)
    [] node.prim_op = BOOL_TRUE -> VBool(TRUE)
    [] node.prim_op = BOOL_FALSE -> VBool(FALSE)
    [] OTHER -> PyNone

\* _value_to_node: PyNone stands for the None it returns for any other value
value_to_node(val) ==
  CASE val.k = "bool" -> B_prim(IF val.b THEN BOOL_TRUE ELSE BOOL_FALSE)
    [] val.k = "int" -> B_int_lit(val.i)
    [] val.k = "str" -> B_str_lit(val.s)
    [] val.k = "float" -> Node(PRIM, <<>>, FLOAT_LIT, DFloat(val.bits), 0, 0)
    [] OTHER -> PyNone

\* a fold that forgets to apply the operator
FoldUnary_Operand(op, arg) == arg

\* val = interp._apply_unary(op, arg); val = interp._apply_binary(op, lhs, rhs)
FoldUnary(op, arg) == apply_unary(op, arg)
FoldBinary(op, lhs, rhs) == apply_binary(op, lhs, rhs)

\* the literal node h[r] folds to, PyNone when it does not fold: an
\* exception of the operator is swallowed (except Exception: pass)
TryFold(h, r) ==
  LET result == h[r]
      f == h[result.children[1]]
      a == h[result.children[2]]
      binary == /\ result.tag = APP
                /\ f.tag = APP
                /\ h[f.children[1]].tag = PRIM
                /\ h[f.children[1]].prim_op \in FOLDABLE_BINARY
                /\ is_literal(h[f.children[2]])
                /\ is_literal(a)
      bval == FoldBinary(h[f.children[1]].prim_op,
                         literal_value(h[f.children[2]]), literal_value(a))
      unary == /\ result.tag = APP
               /\ f.tag = PRIM
               /\ f.prim_op \in FOLDABLE_UNARY
               /\ is_literal(a)
      uval == FoldUnary(f.prim_op, literal_value(a))
  IN IF binary /\ bval.k # "raise" /\ value_to_node(bval) # PyNone
       THEN value_to_node(bval)
     ELSE IF unary /\ uval.k # "raise" /\ value_to_node(uval) # PyNone
       THEN value_to_node(uval)
     ELSE PyNone

\* fold(node) inside constant_fold: st = [h, cache], cache[id] = 0 when absent
RECURSIVE fold(_, _)
RECURSIVE foldChildren(_, _, _)
foldChildren(st, cs, acc) ==
  IF cs = <<>> THEN [st |-> st, ids |-> acc]
  ELSE LET f == fold(st, Head(cs))
       IN foldChildren(f.st, Tail(cs), Append(acc, f.r))

fold(st, i) ==
  IF st.cache[i] # 0 THEN [st |-> st, r |-> st.cache[i]]
  ELSE LET fc == foldChildren(st, st.h[i].children, <<>>)
           changed == fc.ids # st.h[i].children
           h1 == IF changed
                   THEN Append(fc.st.h, [st.h[i] EXCEPT !.children = fc.ids])
                   ELSE fc.st.h
           result == IF changed THEN Len(h1) ELSE i
           folded == TryFold(h1, result)
           h2 == IF folded # PyNone THEN Append(h1, folded) ELSE h1
           r == IF folded # PyNone THEN Len(h2) ELSE result
       IN [st |-> [h |-> h2, cache |-> [fc.st.cache EXCEPT ![i] = r]], r |-> r]

\* a fold that overwrites the node it was given with the folded node
constant_fold_InPlace(h, r) ==
  LET f == fold([h |-> h, cache |-> [i \in 1..Len(h) |-> 0]], r)
  IN [heap |-> [f.st.h EXCEPT ![r] = f.st.h[f.r]], root |-> r]

constant_fold(h, r) ==
  LET f == fold([h |-> h, cache |-> [i \in 1..Len(h) |-> 0]], r)
  IN [heap |-> f.st.h, root |-> f.r]

\* struct.pack('>d', 0.0) and struct.pack('>d', -0.0)
FloatZero == <<0, 0, 0, 0, 0, 0, 0, 0>>
FloatNegZero == <<128, 0, 0, 0, 0, 0, 0, 0>>

\* the key cse computes; as dictionary keys 1 == True and
\* 0 == 0.0 == -0.0 (the other floats are kept apart from the ints)
KeyData(d) ==
  IF IsIntData(d) THEN DInt(IntOf(d))
  ELSE IF d.k = "float" /\ d.bits \in {FloatZero, FloatNegZero} THEN DInt(0)
  ELSE d
structural_key(node) ==
  CASE node.tag = PRIM ->
         [tag |-> PRIM, prim_op |-> node.prim_op, data |-> KeyData(node.data),
          arity |-> Len(node.children)]
    [] node.tag = UNI -> [tag |-> UNI, universe_level |-> node.universe_level]
    [] node.tag = EFF -> [tag |-> EFF, effect |-> node.effect, child_keys |-> node.children]
    [] OTHER -> [tag |-> node.tag, child_keys |-> node.children]

postorder(h, r) == collect(h, r, NoVisit).nodes

\* one iteration of cse's loop over the postorder;
\* st = [h, canonical, replacement, shared_count]
cseStep(st, i) ==
  LET node == st.h[i]
      new_children == [j \in 1..Len(node.children) |-> st.replacement[node.children[j]]]
      changed == new_children # node.children
      h1 == IF changed THEN Append(st.h, [node EXCEPT !.children = new_children]) ELSE st.h
      new_node == IF changed THEN Len(h1) ELSE i
      key == structural_key(h1[new_node])
      hit == { e \in st.canonical : e.tag = key.tag /\ e.key = key }
  IN IF hit # {}
       THEN [h |-> h1, canonical |-> st.canonical,
             replacement |-> [st.replacement EXCEPT ![i] = (CHOOSE e \in hit : TRUE).node],
             shared_count |-> st.shared_count + 1]
       ELSE [h |-> h1,
             canonical |-> st.canonical \cup {[tag |-> key.tag, key |-> key, node |-> new_node]},
             replacement |-> [st.replacement EXCEPT ![i] = new_node],
             shared_count |-> st.shared_count]

RECURSIVE cseLoop(_, _)
cseLoop(st, order) ==
  IF order = <<>> THEN st ELSE cseLoop(cseStep(st, Head(order)), Tail(order))

\* a pass that shares nothing and returns the graph it was given
cse_Nothing(h, r) == [heap |-> h, root |-> r, shared |-> 0]

\* a pass that returns the last child of the node it was given
cse_LastChild(h, r) ==
  [heap |-> h, shared |-> 0,
   root |-> IF h[r].children = <<>> THEN r ELSE h[r].children[Len(h[r].children)]]

\* replacement.get(id(c), c): a position with no replacement maps to itself
cse(h, r) ==
  LET st == cseLoop([h |-> h, canonical |-> {},
                     replacement |-> [i \in 1..Len(h) |-> i], shared_count |-> 0],
                    postorder(h, r))
  IN [heap |-> st.h, root |-> st.replacement[r], shared |-> st.shared_count]

\* eliminate_dead_nodes returns the r it was given
eliminate_dead_nodes(h, r) == [heap |-> h, root |-> r]

\* optimize(r) with passes = ['fold', 'cse', 'dce']
optimize(h, r) ==
  LET f == constant_fold(h, r)
      c == cse(f.heap, f.root)
  IN eliminate_dead_nodes(c.heap, c.root)

\* the term a heap position stands for
RECURSIVE Tree(_, _)
Tree(h, i) == [h[i] EXCEPT !.children = [j \in 1..Len(h[i].children) |-> Tree(h, h[i].children[j])]]

-----------------------------------------------------------------------------
(* Optimizer specification: a graph is built node by node, then its last   *)
(* node is optimized and both graphs are run, as the property test does:   *)
(* optimized, _ = optimize(node); Interpreter().run(node);                 *)
(* Interpreter().run(optimized).                                           *)
MaxOptNodes == 5

\* a builder call of the optimizer specification
Build(n) == AllocWithin(n, MaxOptNodes)

OptimizeAndRun ==
  /\ Building
  /\ heap # <<>>
  /\ phase' = "optimized"
  /\ root' = Len(heap)
  /\ \E o \in {optimize(heap, Len(heap))} :
       output' = [heap |-> o.heap, root |-> o.root,
                  expected |-> Interpreter_run(Tree(heap, Len(heap))).v,
                  actual |-> Interpreter_run(Tree(o.heap, o.root)).v]
  /\ UNCHANGED <<heap, input>>

NextOpt ==
  \/ \E v \in {2} : Build(B_int_lit(v))
  \/ \E op \in {INT_NEG, INT_ADD} : Build(B_prim(op))
  \/ \E i \in {0} : Build(B_var(i))
  \/ \E f \in Ids, a \in Ids : Build(B_app(f, a))
  \/ \E t \in Ids, b \in Ids : Build(B_lam(t, b))
  \/ OptimizeAndRun

SpecOpt == InitBuild /\ [][NextOpt]_vars

-----------------------------------------------------------------------------
(* Claims about the optimizer *)
Optimized == phase = "optimized"
Terminates(v) == v.k # "raise"

\* expected == actual, as Python compares the two values
SameValue(a, b) == a.k # "raise" /\ b.k # "raise" /\ PyEq(a, b)

\* constant folding rewrites a node below an Abstraction, Fixpoint or
\* DependentProduct node of the graph at r
FoldsUnderBinder(h, r) ==
  \E i \in 1..Len(h) :
    /\ i \in collect(h, r, NoVisit).visited
    /\ h[i].tag \in {LAM, FIX, PI}
    /\ constant_fold(h, i).root # i

-----------------------------------------------------------------------------
(* Graph specification: a graph is built node by node, then one operation  *)
(* is applied to its last node, or to its last node and an earlier node    *)
(* that stands for the same term, as the tests do with two separately      *)
(* built copies of one expression.                                         *)
MaxGraphNodes == 5

\* before = len(serialize(expr)); folded = constant_fold(expr);
\* after = len(serialize(folded))
FoldAndSerialize(r) ==
  /\ Building
  /\ phase' = "folded"
  /\ root' = r
  /\ \E f \in {constant_fold(heap, r)} :
       output' = [heap |-> f.heap, root |-> f.root,
                  before |-> serialize(heap, r),
                  after |-> serialize(f.heap, f.root)]
  /\ UNCHANGED <<heap, input>>

\* cse(a); cse(b)
CseBoth(a, b) ==
  /\ Building
  /\ phase' = "cse"
  /\ root' = a
  /\ output' = [other |-> b, first |-> cse(heap, a), second |-> cse(heap, b)]
  /\ UNCHANGED <<heap, input>>

\* once = cse(expr); twice = cse(once); interp.run(once); interp.run(twice)
CseTwice(r) ==
  /\ Building
  /\ phase' = "cse twice"
  /\ root' = r
  /\ \E once \in {cse(heap, r)} :
       \E twice \in {cse(once.heap, once.root)} :
         output' = [once |-> once, twice |-> twice,
                    run_once |-> Interpreter_run(Tree(once.heap, once.root)).v,
                    run_twice |-> Interpreter_run(Tree(twice.heap, twice.root)).v]
  /\ UNCHANGED <<heap, input>>

\* a.content_hash(); b.content_hash()
HashBoth(a, b) ==
  /\ Building
  /\ phase' = "hashed"
  /\ root' = a
  /\ output' = [other |-> b, first |-> content_hash(heap, a),
                second |-> content_hash(heap, b)]
  /\ UNCHANGED <<heap, input>>

\* serialize(n) == serialize(n); h1 = n.content_hash(); h2 = n.content_hash()
CallTwice(r) ==
  /\ Building
  /\ phase' = "called twice"
  /\ root' = r
  /\ output' = [first |-> [bytes |-> serialize(heap, r), digest |-> content_hash(heap, r)],
                second |-> [bytes |-> serialize(heap, r), digest |-> content_hash(heap, r)]]
  /\ UNCHANGED <<heap, input>>

\* the earlier nodes that stand for the same term as the last node
Copies == { a \in Ids : a < Len(heap) /\ Tree(heap, a) = Tree(heap, Len(heap)) }

NextGraph ==
  \/ \E v \in {2} : AllocWithin(B_int_lit(v), MaxGraphNodes)
  \/ \E op \in {INT_ADD} : AllocWithin(B_prim(op), MaxGraphNodes)
  \/ \E f \in Ids, a \in Ids : AllocWithin(B_app(f, a), MaxGraphNodes)
  \/ \E t \in Ids, b \in Ids : AllocWithin(B_lam(t, b), MaxGraphNodes)
  \/ \E r \in Ids : r = Len(heap) /\ FoldAndSerialize(r)
  \/ \E a \in Copies : CseBoth(a, Len(heap))
  \/ \E r \in Ids : r = Len(heap) /\ CseTwice(r)
  \/ \E a \in Copies : HashBoth(a, Len(heap))
  \/ \E r \in Ids : r = Len(heap) /\ CallTwice(r)
  \/ OptimizeAndRun

SpecGraph == InitBuild /\ [][NextGraph]_vars

-----------------------------------------------------------------------------
(* Claims about the graph operations *)

\* C12: for every graph n that serializes, constant folding never increases
\* the serialized size: len(serialize(constant_fold(n))) <= len(serialize(n)),
\* whatever nodes of n are shared with parts that are not folded.
C12_FoldNeverGrows ==
  (phase = "folded" /\ output.before.k = "ok")
    => /\ output.after.k = "ok"
       /\ Len(output.after.bytes) <= Len(output.before.bytes)

\* the number of node objects of the graph at r
ObjectCount(h, r) == Len(NodeTable(h, r))

\* C13: for two graphs that are structurally identical, possibly differing
\* in which equal subtrees are shared by reference, one CSE pass makes them
\* indistinguishable: content_hash(cse(g1)) = content_hash(cse(g2)) and
\* serialize(cse(g1)) = serialize(cse(g2)).
C13_CseMakesCopiesEqual ==
  (phase = "cse" /\ Tree(heap, root) = Tree(heap, output.other))
    => /\ content_hash(output.first.heap, output.first.root)
            = content_hash(output.second.heap, output.second.root)
       /\ serialize(output.first.heap, output.first.root)
            = serialize(output.second.heap, output.second.root)

\* two copies of one term that share differently, and so serialize
\* differently before the pass, went through cse and a node was shared
C13_Witness ==
  /\ phase = "cse"
  /\ Tree(heap, root) = Tree(heap, output.other)
  /\ ObjectCount(heap, root) # ObjectCount(heap, output.other)
  /\ serialize(heap, root) # serialize(heap, output.other)
  /\ output.first.shared + output.second.shared > 0
  /\ serialize(output.first.heap, output.first.root).k = "ok"

\* C14: CSE is idempotent with respect to evaluation: for every graph n
\* whose evaluation yields a value, evaluating cse(cse(n)) yields the same
\* value as evaluating cse(n).
C14_CseIdempotent ==
  (phase = "cse twice" /\ Terminates(output.run_once))
    => SameValue(output.run_once, output.run_twice)

\* an addition of two separately allocated equal literals went through
\* cse twice: the first pass shared a node, both runs returned 4
C14_Witness ==
  /\ phase = "cse twice"
  /\ output.once.shared > 0
  /\ output.run_once = VInt(4)
  /\ output.run_twice = VInt(4)

\* C15: content_hash(a) = content_hash(b) for any two structurally
\* identical graphs a and b, whether equal subtrees are shared by reference
\* or duplicated and whatever else was allocated.
C15_StructuralHash ==
  (phase = "hashed" /\ Tree(heap, root) = Tree(heap, output.other))
    => output.first = output.second

\* two copies of one term made of different numbers of node objects were hashed
C15_Witness ==
  /\ phase = "hashed"
  /\ root # output.other
  /\ Tree(heap, root) = Tree(heap, output.other)
  /\ ObjectCount(heap, root) # ObjectCount(heap, output.other)
  /\ output.first = output.second

-----------------------------------------------------------------------------
(* Leaf specification: two leaf nodes are built, then both are hashed *)
LeafNodes ==
  { B_int_lit(v) : v \in {0, 1, -1, 255, 256, -256, 65536, 1000, -1000} }
  \cup { B_str_lit(s) : s \in {<<>>, <<97>>, <<98>>, <<97, 98>>, <<233>>, <<195, 169>>} }
  \cup { B_prim(op) : op \in {INT_ADD, INT_MUL} }
  \cup { B_var(1), B_unit }

InitLeaves ==
  /\ heap \in { <<a, b>> : a \in LeafNodes, b \in LeafNodes }
  /\ phase = "build"
  /\ root = 0
  /\ input = <<>>
  /\ output = None

NextLeaves == HashBoth(1, 2)

SpecLeaves == InitLeaves /\ [][NextLeaves]_vars

IsIntLiteral(n) == n.tag = PRIM /\ n.prim_op = INT_LIT /\ n.data.k = "int"
IsStrLiteral(n) == n.tag = PRIM /\ n.prim_op = STR_LIT /\ n.data.k = "str"
DistinctLiterals(a, b) ==
  \/ IsIntLiteral(a) /\ IsIntLiteral(b) /\ a.data.i # b.data.i
  \/ IsStrLiteral(a) /\ IsStrLiteral(b) /\ a.data.s # b.data.s
DifferOnlyInOp(a, b) == a.prim_op # b.prim_op /\ [a EXCEPT !.prim_op = b.prim_op] = b
\* the bytes a leaf feeds to the hash: the header byte, then the payload
FedBytes(digest) == <<digest.head>> \o digest.payload

\* C16: for any two literal nodes with payloads a # b (both integer
\* literals or both string literals), and for any two nodes that differ
\* only in their primitive-operation code, the byte sequences fed to the
\* hash differ, so their content hashes differ.
C16_DistinctLiteralsHashDiffer ==
  (/\ phase = "hashed"
   /\ \/ DistinctLiterals(heap[root], heap[output.other])
      \/ DifferOnlyInOp(heap[root], heap[output.other]))
    => /\ FedBytes(output.first) # FedBytes(output.second)
       /\ output.first # output.second

\* the integer literals 1 and 256, whose payloads hold the same byte
\* values at different places, were hashed
C16_Witness ==
  /\ phase = "hashed"
  /\ heap[root] = B_int_lit(1)
  /\ heap[output.other] = B_int_lit(256)
  /\ output.first # output.second

-----------------------------------------------------------------------------
(* More claims about the graph operations, checked under SpecGraph *)

\* the same graph allocated at other addresses: the heap in reverse order
Relocated(h) ==
  [i \in 1..Len(h) |->
     [h[Len(h) + 1 - i] EXCEPT !.children = [j \in 1..Len(@) |-> Len(h) + 1 - @[j]]]]
Moved(h, r) == Len(h) + 1 - r

\* C17: serialize(n) called twice on the same unmodified graph returns
\* identical bytes and content_hash(n) called twice returns identical
\* digests; neither result depends on allocation addresses.
C17_Deterministic ==
  phase = "called twice"
    => /\ output.first = output.second
       /\ output.first.bytes = serialize(Relocated(heap), Moved(heap, root))
       /\ output.first.digest = content_hash(Relocated(heap), Moved(heap, root))

\* a graph of at least three node objects, one of them shared, was
\* serialized and hashed twice
C17_Witness ==
  /\ phase = "called twice"
  /\ output.first.bytes.k = "ok"
  /\ ObjectCount(heap, root) >= 3
  /\ \E i \in Ids : heap[i].tag = APP /\ heap[i].children[1] = heap[i].children[2]
  /\ Relocated(heap) # heap
  /\ output.first = output.second

\* the node objects reachable from r
RECURSIVE Reachable(_, _)
Reachable(h, r) ==
  {r} \cup UNION { Reachable(h, h[r].children[j]) : j \in 1..Len(h[r].children) }

\* the records of a serialization, as deserialize reads them
RecordsOf(b) == ReadNodes(b, 7, 0, DeclaredCount(b), <<>>).nodes

\* C18: the node table written by serialize is a duplicate-free postorder
\* of the DAG: every node object reachable from the root appears exactly
\* once, every child index of a record is smaller than the record's own
\* index, and the root is the last record (root index = node count - 1).
C18_TableIsPostorder ==
  (phase = "called twice" /\ output.first.bytes.k = "ok")
    => LET b == output.first.bytes.bytes
           recs == RecordsOf(b)
           table == NodeTable(heap, root)
       IN /\ Len(recs) = DeclaredCount(b)
          /\ DeclaredCount(b) = Cardinality(Reachable(heap, root))
          /\ { table[p] : p \in 1..Len(table) } = Reachable(heap, root)
          /\ Len(table) = DeclaredCount(b)
          /\ \A p \in 1..Len(recs) :
               /\ recs[p].tag = heap[table[p]].tag
               /\ Len(recs[p].children) = Len(heap[table[p]].children)
               /\ \A j \in 1..Len(recs[p].children) :
                    /\ recs[p].children[j] < p - 1
                    /\ table[recs[p].children[j] + 1] = heap[table[p]].children[j]
          /\ DeclaredRoot(b) = DeclaredCount(b) - 1
          /\ table[Len(table)] = root

\* a graph whose root has one node object as both children was serialized:
\* the table has fewer records than the term has nodes
C18_Witness ==
  /\ phase = "called twice"
  /\ output.first.bytes.k = "ok"
  /\ heap[root].tag = APP
  /\ heap[root].children[1] = heap[root].children[2]
  /\ heap[heap[root].children[1]].tag = APP
  /\ DeclaredCount(output.first.bytes.bytes) = Cardinality(Reachable(heap, root))

\* the heaps an operation left behind
ResultHeaps ==
  CASE phase = "folded" -> {output.heap}
    [] phase = "cse" -> {output.first.heap, output.second.heap}
    [] phase = "cse twice" -> {output.once.heap, output.twice.heap}
    [] phase = "optimized" -> {output.heap}
    [] OTHER -> {heap}

-----------------------------------------------------------------------------
(* Fixpoint programs of xi_match.py: nat-add and factorial applied to      *)
(* Peano numerals.                                                         *)
MaxNat == 6
\* the nested _eval calls the recursion limit allows these programs
FixDepth == 22

\* nat(v): v applications of nat_succ to NAT_ZERO
RECURSIVE nat(_)
nat(v) == IF v = 0 THEN constr(0, <<>>) ELSE constr(1, <<nat(v - 1)>>)

\* add = fix self. \n. \m. match n { zero -> m | succ k -> succ(self k m) }
build_nat_add ==
  B_fix(B_universe(0),
    B_lam(B_universe(0), B_lam(B_universe(0),
      match_expr(B_var(1),
        << B_var(0),
           B_lam(B_universe(0),
             constr(1, <<B_app(B_app(B_var(3), B_var(0)), B_var(1))>>)) >>))))

\* mul = fix self. \n. \m. match n { zero -> zero | succ k -> add m (self k m) }
build_nat_mul ==
  B_fix(B_universe(0),
    B_lam(B_universe(0), B_lam(B_universe(0),
      match_expr(B_var(1),
        << constr(0, <<>>),
           B_lam(B_universe(0),
             B_app(B_app(build_nat_add, B_var(1)),
                   B_app(B_app(B_var(3), B_var(0)), B_var(1)))) >>))))

\* fact = fix self. \n. match n { zero -> 1 | succ k -> mul (succ k) (self k) }
build_factorial ==
  B_fix(B_universe(0),
    B_lam(B_universe(0),
      match_expr(B_var(0),
        << constr(1, <<constr(0, <<>>)>>),
           B_lam(B_universe(0),
             B_app(B_app(build_nat_mul, constr(1, <<B_var(0)>>)),
                   B_app(B_var(2), B_var(0)))) >>)))

\* the term a test evaluates: add n m, or fact n
ProgramOf(p) ==
  IF p.prog = "add" THEN B_app(B_app(build_nat_add, nat(p.n)), nat(p.m))
  ELSE B_app(build_factorial, nat(p.n))

InitFix ==
  /\ heap = <<>>
  /\ phase = "build"
  /\ root = 0
  /\ input \in {[prog |-> "add", n |-> 0, m |-> 0], [prog |-> "fact", n |-> 0, m |-> 0]}
  /\ output = None

\* the first numeral grows by a successor
SuccN ==
  /\ Building
  /\ input.n < MaxNat
  /\ input' = [input EXCEPT !.n = @ + 1]
  /\ UNCHANGED <<heap, phase, root, output>>

\* the second numeral of an addition grows by a successor
SuccM ==
  /\ Building
  /\ input.prog = "add"
  /\ input.m < MaxNat
  /\ input' = [input EXCEPT !.m = @ + 1]
  /\ UNCHANGED <<heap, phase, root, output>>

\* MatchInterpreter().run(program), its recursion cut at FixDepth
RunFix ==
  /\ Building
  /\ phase' = "evaluated"
  /\ \E r \in {self_eval(None, ProgramOf(input), FixDepth, 0)} :
       output' = [by |-> "MatchInterpreter", r |-> r]
  /\ UNCHANGED <<heap, root, input>>

\* after a run the next program is taken up
NextProgram ==
  /\ phase = "evaluated"
  /\ phase' = "build"
  /\ output' = None
  /\ \E p \in {"add", "fact"} : input' = [prog |-> p, n |-> 0, m |-> 0]
  /\ UNCHANGED <<heap, root>>

NextFix == SuccN \/ SuccM \/ RunFix \/ NextProgram
SpecFix == InitFix /\ [][NextFix]_vars

RECURSIVE Factorial(_)
Factorial(n) == IF n = 0 THEN 1 ELSE n * Factorial(n - 1)

\* the number the program is to compute
Expected(p) == IF p.prog = "add" THEN p.n + p.m ELSE Factorial(p.n)

\* the evaluation was cut short by one of the interpreter's own limits
HitLimit(r) ==
  \/ r.v = Raise("RecursionError", "")
  \/ r.v = XiError("Reduction limit exceeded")

-----------------------------------------------------------------------------
(* xi_multicore.py: MultiCoreEngine.run.  The primary reduction runs on    *)
(* the calling thread before any worker exists; then the calling thread    *)
(* pops sparks and submits them, the pool's threads reduce them, and the   *)
(* calling thread waits for every future.  A step of a thread is a piece   *)
(* of code between two acquisitions of the SparkPool lock.  A worker's     *)
(* reduction touches nothing shared but the pool (and its core's           *)
(* reductions counter, which nothing reads), so it is the sequence of      *)
(* pushes it makes.                                                        *)
MaxCores == 2

\* ReductionCore.reduce_node(node), the sparks pushed so far being pushed:
\* [v, pushed] with the value returned or the exception raised.  The
\* programs here hold no Abstraction that loops, so Python's recursion
\* limit is out of reach.
RECURSIVE reduce_node(_, _)
reduce_node(node, pushed) ==
  LET is_reducible(n) == n.tag \in {APP, EFF, FIX}
      is_value(n) == n.tag = PRIM \/ n.tag = LAM
      to_value(n) ==
        IF n.tag # PRIM THEN VNode(n)
        ELSE CASE n.prim_op \in {STR_LIT, INT_LIT} -> DataValue(n.data)
               [] n.prim_op = BOOL_TRUE -> VBool(TRUE)
               [] n.prim_op = BOOL_FALSE -> VBool(FALSE)
               [] n.prim_op = UNIT -> PyNone
               [] OTHER -> VNode(n)
      apply_prim_unary(op, val) ==
        IF op \in {INT_NEG, BOOL_NOT, STR_LEN} THEN apply_unary(op, val) ELSE val
      apply_prim_binary(op, a, b) ==
        IF op \in BinaryOps THEN apply_binary(op, a, b) ELSE PyNone
      func == node.children[1]
      arg == node.children[2]
      sparked == IF is_reducible(func) /\ is_reducible(arg)
                   THEN Append(pushed, arg) ELSE pushed
      val == IF is_value(arg) THEN [v |-> to_value(arg), pushed |-> sparked]
             ELSE reduce_node(arg, sparked)
      lhs == reduce_node(func.children[2], val.pushed)
  IN CASE node.tag = EFF -> reduce_node(node.children[1], pushed)
       [] node.tag = APP /\ val.v.k = "raise" -> val
       [] node.tag = APP /\ val.v.k # "raise" /\ func.tag = PRIM ->
            [v |-> apply_prim_unary(func.prim_op, val.v), pushed |-> val.pushed]
       [] /\ node.tag = APP /\ val.v.k # "raise"
          /\ func.tag = APP /\ func.children[1].tag = PRIM ->
            IF lhs.v.k = "raise" THEN lhs
            ELSE [v |-> apply_prim_binary(func.children[1].prim_op, lhs.v, val.v),
                  pushed |-> lhs.pushed]
       [] node.tag = APP /\ val.v.k # "raise" /\ func.tag = LAM ->
            reduce_node(substitute(func.children[2], 0, to_node(val.v)), val.pushed)
       [] node.tag = APP /\ val.v.k # "raise" /\ func.tag \notin {PRIM, LAM, APP} ->
            [v |-> VNode(node), pushed |-> val.pushed]
       [] /\ node.tag = APP /\ val.v.k # "raise"
          /\ func.tag = APP /\ func.children[1].tag # PRIM ->
            [v |-> VNode(node), pushed |-> val.pushed]
       [] node.tag = PRIM -> [v |-> to_value(node), pushed |-> pushed]
       [] OTHER -> [v |-> VNode(node), pushed |-> pushed]

Lit(i) == B_int_lit(i)
Sum(a, b) == B_app(B_app(B_prim(INT_ADD), a), b)
Neg(a) == B_app(B_prim(INT_NEG), a)

\* arithmetic programs: some spark nothing, some spark subgraphs whose own
\* reduction sparks again
MultiPrograms ==
  { Sum(Lit(10), Lit(20)),
    Sum(Sum(Lit(10), Lit(20)), Sum(Lit(30), Lit(40))),
    Sum(Sum(Lit(1), Lit(2)), Sum(Lit(1), Neg(Lit(2)))),
    Sum(Sum(Lit(1), Lit(2)), Sum(Sum(Lit(3), Lit(4)), Sum(Lit(5), Neg(Neg(Lit(6)))))),
    Neg(Sum(Lit(1), Lit(2))),
    B_app(B_app(B_prim(INT_DIV), Sum(Lit(1), Lit(2))), Neg(Lit(0))),
    B_app(B_prim(PRINT), Lit(5)),
    Node(PRIM, <<>>, FLOAT_LIT, DFloat(<<63, 248, 0, 0, 0, 0, 0, 0>>), 0, 0) }

InitMulti ==
  /\ heap = <<>>
  /\ phase = "build"
  /\ root = 0
  /\ input \in MultiPrograms
  /\ output = None

\* a future of the executor: the spark's node, the pushes its reduction
\* has still to make, and where it stands
Future(node) == [node |-> node, todo |-> reduce_node(node, <<>>).pushed, st |-> "queued"]

\* engine = MultiCoreEngine(num_cores); engine.run(input), up to the with
\* statement: result = core.reduce_node(program)
PrimaryReduction(num_cores) ==
  /\ Building
  /\ \E r \in {reduce_node(input, <<>>)} :
       /\ phase' = IF r.v.k = "raise" THEN "raised" ELSE "loop"
       /\ output' = [cores |-> num_cores, result |-> r.v, queue |-> r.pushed,
                     total_sparks |-> Len(r.pushed), futures |-> <<>>]
  /\ UNCHANGED <<heap, root, input>>

\* while not self.spark_pool.is_empty(): spark = self.spark_pool.pop();
\* futures.append(executor.submit(...)).  Only this thread pops, so the
\* spark seen by is_empty is the one popped.
PopAndSubmit ==
  /\ phase = "loop"
  /\ output.queue # <<>>
  /\ output' = [output EXCEPT !.queue = Tail(@),
                              !.futures = Append(@, Future(Head(output.queue)))]
  /\ UNCHANGED <<heap, phase, root, input>>

\* is_empty() answers True: the loop is left for as_completed(futures)
LeaveLoop ==
  /\ phase = "loop"
  /\ output.queue = <<>>
  /\ phase' = "wait"
  /\ UNCHANGED <<heap, root, input, output>>

\* the futures submitted so far
Submitted == IF phase \in {"loop", "wait"} THEN 1..Len(output.futures) ELSE {}

Running == {i \in Submitted : output.futures[i].st = "running"}

\* a thread of the executor takes the oldest future not yet started
WorkerStart(i) ==
  /\ i \in Submitted
  /\ output.futures[i].st = "queued"
  /\ \A j \in 1..(i - 1) : output.futures[j].st # "queued"
  /\ Cardinality(Running) < output.cores
  /\ output' = [output EXCEPT !.futures[i].st = "running"]
  /\ UNCHANGED <<heap, phase, root, input>>

\* self.spark_pool.push(Spark(arg, priority=1)) inside a worker's reduce_node
WorkerPush(i) ==
  /\ i \in Running
  /\ output.futures[i].todo # <<>>
  /\ output' = [output EXCEPT !.queue = Append(@, Head(output.futures[i].todo)),
                              !.total_sparks = @ + 1,
                              !.futures[i].todo = Tail(@)]
  /\ UNCHANGED <<heap, phase, root, input>>

\* the worker's reduce_node returns or raises: the future is done
WorkerDone(i) ==
  /\ i \in Running
  /\ output.futures[i].todo = <<>>
  /\ output' = [output EXCEPT !.futures[i].st = "done"]
  /\ UNCHANGED <<heap, phase, root, input>>

\* every future is done: the with statement is left and run returns result
Return ==
  /\ phase = "wait"
  /\ \A i \in 1..Len(output.futures) : output.futures[i].st = "done"
  /\ phase' = "returned"
  /\ UNCHANGED <<heap, root, input, output>>

NextMulti ==
  \/ \E num_cores \in 1..MaxCores : PrimaryReduction(num_cores)
  \/ PopAndSubmit
  \/ LeaveLoop
  \/ \E i \in Submitted : WorkerStart(i)
  \/ \E i \in Submitted : WorkerPush(i)
  \/ \E i \in Submitted : WorkerDone(i)
  \/ Return

SpecMulti == InitMulti /\ [][NextMulti]_vars

\* C22: MultiCoreEngine.run(p) returns the same value for every number of
\* cores and every interleaving of the worker threads, the value the
\* sequential Interpreter computes for p.
C22_MultiCoreAgreesWithInterpreter ==
  (phase \in {"returned", "raised"} /\ ~Raised(Interpreter_run(input)))
    => phase = "returned" /\ output.result = Interpreter_run(input).v

\* C28: when MultiCoreEngine.run returns, every spark that was pushed has
\* been popped and reduced exactly once, so the pool is empty.
C28_PoolDrainedAtReturn ==
  phase = "returned"
    => /\ output.queue = <<>>
       /\ Len(output.futures) = output.total_sparks

-----------------------------------------------------------------------------
(* GraphMemory: xi_multicore.py.  Threads call store concurrently; a      *)
(* statement such as self.inserts += 1 is a read and a write, and another *)
(* thread may run between any two steps that the lock does not order.     *)

MaxThreads == 2
MaxStores == 3

Threads == 1..MaxThreads

StoreNodes == { B_int_lit(42), B_int_lit(99) }

\* mem = GraphMemory(); the heap holds the node objects handed to store
InitMemory ==
  /\ heap \in { <<a, b, c>> : a \in StoreNodes, b \in StoreNodes, c \in StoreNodes }
  /\ phase = "stores"
  /\ root = 0
  /\ input = <<>>
  /\ output = [_store |-> {}, _lock |-> 0, inserts |-> 0, dedup_hits |-> 0,
               started |-> 0,
               thread |-> [t \in Threads |-> [pc |-> "idle", node |-> 0, h |-> None, read |-> 0]]]

Storing == phase = "stores"
At(t, pc) == Storing /\ output.thread[t].pc = pc

Lock_NotHeld(lock) == TRUE
\* Lock.acquire returns once no thread holds the lock
Lock_acquire(lock) == lock = 0

\* self._store[h] = node
DictSet(d, h, node) == {e \in d : e[1] # h} \cup {<<h, node>>}
DictKeys(d) == {e[1] : e \in d}

\* h = node.content_hash().hex(), before the lock is taken
StoreCall(t, node) ==
  /\ At(t, "idle")
  /\ output.started < MaxStores
  /\ output' = [output EXCEPT !.started = @ + 1,
                              !.thread[t] = [pc |-> "hashed", node |-> node,
                                             h |-> content_hash(heap, node), read |-> 0]]
  /\ UNCHANGED <<heap, phase, root, input>>

\* with self._lock:
Acquire(t) ==
  /\ At(t, "hashed")
  /\ Lock_acquire(output._lock)
  /\ output' = [output EXCEPT !._lock = t, !.thread[t].pc = "locked"]
  /\ UNCHANGED <<heap, phase, root, input>>

\* self.inserts += 1: the read
ReadInserts(t) ==
  /\ At(t, "locked")
  /\ output' = [output EXCEPT !.thread[t].pc = "read", !.thread[t].read = output.inserts]
  /\ UNCHANGED <<heap, phase, root, input>>

\* self.inserts += 1: the write
WriteInserts(t) ==
  /\ At(t, "read")
  /\ output' = [output EXCEPT !.inserts = output.thread[t].read + 1,
                              !.thread[t].pc = "counted"]
  /\ UNCHANGED <<heap, phase, root, input>>

\* if h in self._store: (the read of self.dedup_hits += 1) else: (skip)
Lookup(t) ==
  /\ At(t, "counted")
  /\ output' = [output EXCEPT
       !.thread[t].pc = IF output.thread[t].h \in DictKeys(output._store)
                        THEN "hit" ELSE "miss",
       !.thread[t].read = output.dedup_hits]
  /\ UNCHANGED <<heap, phase, root, input>>

\* self.dedup_hits += 1: the write
WriteHits(t) ==
  /\ At(t, "hit")
  /\ output' = [output EXCEPT !.dedup_hits = output.thread[t].read + 1,
                              !.thread[t].pc = "done"]
  /\ UNCHANGED <<heap, phase, root, input>>

\* else: self._store[h] = node
Insert(t) ==
  /\ At(t, "miss")
  /\ output' = [output EXCEPT
       !._store = DictSet(@, output.thread[t].h, output.thread[t].node),
       !.thread[t].pc = "done"]
  /\ UNCHANGED <<heap, phase, root, input>>

\* the with block is left and store returns h; input lists the calls that
\* have returned
Release(t) ==
  /\ At(t, "done")
  /\ output' = [output EXCEPT !._lock = 0, !.thread[t].pc = "idle"]
  /\ input' = Append(input, output.thread[t].node)
  /\ UNCHANGED <<heap, phase, root>>

NextMemory ==
  \/ \E t \in Threads, node \in 1..Len(heap) : StoreCall(t, node)
  \/ \E t \in Threads : Acquire(t)
  \/ \E t \in Threads : ReadInserts(t)
  \/ \E t \in Threads : WriteInserts(t)
  \/ \E t \in Threads : Lookup(t)
  \/ \E t \in Threads : WriteHits(t)
  \/ \E t \in Threads : Insert(t)
  \/ \E t \in Threads : Release(t)

SpecMemory == InitMemory /\ [][NextMemory]_vars

\* len(self._store)
GraphMemory_size == Cardinality(output._store)
\* the content hashes of the nodes whose store call has returned
StoredHashes == { content_hash(heap, input[k]) : k \in 1..Len(input) }

\* C23: under any interleaving of concurrent store calls, whenever no call
\* is inside the table's critical section, inserts is the number of store
\* calls made, size() is the number of distinct content hashes stored and
\* dedup_hits is inserts - size().
C23_DedupTableConsistent ==
  (Storing /\ output._lock = 0)
    => /\ output.inserts = Len(input)
       /\ GraphMemory_size = Cardinality(StoredHashes)
       /\ output.dedup_hits = output.inserts - GraphMemory_size

\* two calls have stored equal content, one of them a dedup hit, while a
\* third call has its hash and waits for the lock
C23_Witness ==
  /\ Storing /\ output._lock = 0 /\ Len(input) = 2
  /\ output.inserts = 2 /\ output.dedup_hits = 1 /\ GraphMemory_size = 1
  /\ \E t \in Threads : output.thread[t].pc = "hashed"

-----------------------------------------------------------------------------
(* Substitution on its own: Interpreter._substitute applied to terms      *)
(* grown around a variable.                                               *)

MaxWraps == 2
MaxIndex == 2

\* values as nodes: two closed ones, two with a free variable
SubstValues ==
  { B_int_lit(7), B_lam(B_unit, B_var(0)), B_var(0), B_lam(B_unit, B_var(1)) }

InitSubst ==
  /\ heap = <<>>
  /\ phase = "build"
  /\ root = 0
  /\ input \in [node : {B_var(k) : k \in 0..MaxIndex}, idx : 0..1,
                val : SubstValues, wraps : {0}]
  /\ output = None

\* grow the term by one node around the current one
Wrap(t) ==
  /\ Building
  /\ input.wraps < MaxWraps
  /\ input' = [input EXCEPT !.node = t, !.wraps = @ + 1]
  /\ UNCHANGED <<heap, phase, root, output>>

Wrappers(t) ==
  { B_lam(B_unit, t), B_lam(t, B_var(0)), B_fix(B_unit, t), B_fix(t, B_var(1)),
    B_pi(B_unit, t), N_sig(B_unit, t), B_effect(t, EFFECT_IO) }
  \cup { B_app(t, B_var(k)) : k \in 0..MaxIndex }
  \cup { B_app(B_var(k), t) : k \in 0..MaxIndex }

\* self._substitute(node, idx, val)
Substitute ==
  /\ Building
  /\ phase' = "substituted"
  /\ output' = substitute(input.node, input.idx, input.val)
  /\ UNCHANGED <<heap, root, input>>

NextSubst ==
  \/ \E t \in Wrappers(input.node) : Wrap(t)
  \/ Substitute

SpecSubst == InitSubst /\ [][NextSubst]_vars

\* the positions of a term, each the child numbers from the root
RECURSIVE Positions(_)
Positions(t) ==
  {<<>>} \cup UNION { { <<i>> \o p : p \in Positions(t.children[i]) } :
                       i \in 1..Len(t.children) }

RECURSIVE Subterm(_, _)
Subterm(t, p) == IF p = <<>> THEN t ELSE Subterm(t.children[Head(p)], Tail(p))

\* how many Abstraction/Fixpoint bodies the way down to position p enters
RECURSIVE BindersAbove(_, _)
BindersAbove(t, p) ==
  IF p = <<>> THEN 0
  ELSE (IF t.tag \in {LAM, FIX} /\ Head(p) = 2 THEN 1 ELSE 0)
       + BindersAbove(t.children[Head(p)], Tail(p))

\* the free variables of t from cutoff upwards, raised by one
RECURSIVE Shift(_, _)
Shift(t, cutoff) ==
  IF IsVar(t)
    THEN IF IntOf(t.data) >= cutoff THEN B_var(IntOf(t.data) + 1) ELSE t
    ELSE [t EXCEPT !.children =
            [i \in 1..Len(t.children) |->
               Shift(t.children[i],
                     IF t.tag \in {LAM, FIX} /\ i = 2 THEN cutoff + 1 ELSE cutoff)]]

\* capture-avoiding substitution t[idx := v] on de Bruijn terms: the value
\* is shifted each time it is carried under a binder
RECURSIVE CaptureAvoiding(_, _, _)
CaptureAvoiding(t, idx, v) ==
  IF IsVar(t)
    THEN IF IntOf(t.data) = idx THEN v
         ELSE IF IntOf(t.data) > idx THEN B_var(IntOf(t.data) - 1)
         ELSE t
    ELSE [t EXCEPT !.children =
            [i \in 1..Len(t.children) |->
               IF t.tag \in {LAM, FIX} /\ i = 2
                 THEN CaptureAvoiding(t.children[i], idx + 1, Shift(v, 0))
                 ELSE CaptureAvoiding(t.children[i], idx, v)]]

Substituted == phase = "substituted"

\* what became of position p of the term
Image(p) ==
  LET here == Subterm(input.node, p)
      target == input.idx + BindersAbove(input.node, p)
  IN  IF ~IsVar(here) THEN TRUE
      ELSE Subterm(output, p) =
             IF IntOf(here.data) = target THEN input.val
             ELSE IF IntOf(here.data) > target THEN B_var(IntOf(here.data) - 1)
             ELSE here

\* C24: _substitute(t, idx, v) replaces every variable whose index is the
\* current target by v, decrements every variable above the target, leaves
\* every variable below it and every other node as it is, the target being
\* idx plus the number of Abstraction/Fixpoint bodies (child 1) entered on
\* the way; for closed v the result is the capture-avoiding substitution.
C24_SubstituteByIndex ==
  Substituted =>
    /\ \A p \in Positions(input.node) :
         LET here == Subterm(input.node, p)
         IN  IF IsVar(here) THEN Image(p)
             ELSE Subterm(output, p) =
                    [here EXCEPT !.children =
                       [i \in 1..Len(here.children) |-> Subterm(output, p \o <<i>>)]]
    /\ Closed(input.val) =>
         output = CaptureAvoiding(input.node, input.idx, input.val)

\* under the binder of an Abstraction body the target is one higher: the
\* variable 1 is replaced and the variable 2 is decremented
C24_Witness ==
  /\ Substituted
  /\ input.node = B_lam(B_unit, B_app(B_var(1), B_var(2)))
  /\ input.idx = 0
  /\ input.val = B_lam(B_unit, B_var(0))
  /\ output = B_lam(B_unit, B_app(input.val, B_var(1)))

-----------------------------------------------------------------------------
(* Closedness along an evaluation: MatchInterpreter run with an observer  *)
(* on every term handed to self._eval.                                    *)

\* fixpoint programs, abstractions that return or apply their arguments, a
\* match head, and an abstraction whose body reaches past its binder
ClosedHeads ==
  { build_nat_add, build_factorial, Identity, N_match(2),
    B_fix(B_unit, B_lam(B_unit, B_var(0))),
    B_lam(B_unit, B_lam(B_unit, B_app(B_var(1), B_var(0)))),
    B_lam(B_unit, B_lam(B_unit, B_var(2))) }

ClosedArgs == { nat(0), nat(1), nat(2), Identity, B_prim(INT_NEG), B_var(0) }

InitClosed ==
  /\ heap = <<>>
  /\ phase = "build"
  /\ root = 0
  /\ input \in ClosedHeads
  /\ output = None

\* MatchInterpreter().run(input), watched
RunWatched ==
  /\ Building
  /\ phase' = "watched"
  /\ \E r \in {self_eval([watch |-> "closed"], input, FixDepth, 0)} :
       output' = [by |-> "MatchInterpreter", r |-> r]
  /\ UNCHANGED <<heap, root, input>>

NextClosed ==
  \/ \E a \in ClosedArgs : ApplyArg(a)
  \/ RunWatched

SpecClosed == InitClosed /\ [][NextClosed]_vars

Watched == phase = "watched"

\* C25: evaluating a closed term never raises the unbound-variable error,
\* and every term handed to the step function on the way (after
\* beta-reduction, fixpoint unfolding, match reduction and the fallback
\* retry) is closed.
C25_ClosedStaysClosed ==
  (Watched /\ Closed(input))
    => /\ output.r.v # Raise("NotClosed", "")
       /\ output.r.v # XiError("Unbound variable")

\* factorial of 2, which unfolds fixpoints, reduces matches, beta-reduces
\* and retries applications, ran to its value under the observer
C25_Witness ==
  /\ Watched
  /\ input = B_app(build_factorial, nat(2))
  /\ Closed(input)
  /\ output.r.v.k = "constr"
  /\ MatchInterpreter_to_node(output.r.v) = nat(2)

-----------------------------------------------------------------------------
(* cse against content_hash: graphs of float literals and applications,   *)
(* hashed before and after the pass.                                      *)

MaxCseNodes == 4

float_lit(bits) == Node(PRIM, <<>>, FLOAT_LIT, DFloat(bits), 0, 0)

CseLeaves == { float_lit(FloatZero), float_lit(FloatNegZero), B_prim(INT_ADD) }

\* shared = cse(n); n.content_hash(); shared.content_hash()
CseAndHash(r) ==
  /\ Building
  /\ phase' = "cse hashed"
  /\ root' = r
  /\ \E c \in {cse(heap, r)} :
       output' = [heap |-> c.heap, root |-> c.root, shared |-> c.shared,
                  before |-> content_hash(heap, r),
                  after |-> content_hash(c.heap, c.root)]
  /\ UNCHANGED <<heap, input>>

NextCse ==
  \/ \E n \in CseLeaves : AllocWithin(n, MaxCseNodes)
  \/ \E f \in Ids, a \in Ids : AllocWithin(B_app(f, a), MaxCseNodes)
  \/ \E r \in Ids : CseAndHash(r)

SpecCse == InitBuild /\ [][NextCse]_vars

\* C26: for every graph n, content_hash(cse(n)) == content_hash(n): the
\* structural key never merges two nodes whose content hashes differ.
C26_CsePreservesHash ==
  phase = "cse hashed" => output.after = output.before

-----------------------------------------------------------------------------
(* constant_fold against the format's field widths: a short string        *)
(* literal multiplied by an integer literal, serialized before and after  *)
(* the fold.                                                              *)

MaxRepeat == 32768

\* "a", "ab" and U+00E9 (two bytes in UTF-8); the factor on either side
InitRepeat ==
  /\ heap = <<>>
  /\ phase = "build"
  /\ root = 0
  /\ input \in [s : {<<97>>, <<97, 98>>, <<233>>}, times : {1}, str_first : BOOLEAN]
  /\ output = None

\* the factor of the program to build, doubled
Double ==
  /\ Building
  /\ heap = <<>>
  /\ 2 * input.times <= MaxRepeat
  /\ input' = [input EXCEPT !.times = 2 * @]
  /\ UNCHANGED <<heap, phase, root, output>>

\* B.app(B.app(B.prim(PrimOp.INT_MUL), B.str_lit(s)), B.int_lit(times)), or
\* with the operands the other way round
Assemble ==
  /\ Building
  /\ heap = <<>>
  /\ heap' = << B_prim(INT_MUL),
                IF input.str_first THEN B_str_lit(input.s) ELSE B_int_lit(input.times),
                B_app(1, 2),
                IF input.str_first THEN B_int_lit(input.times) ELSE B_str_lit(input.s),
                B_app(3, 4) >>
  /\ UNCHANGED <<phase, root, input, output>>

NextRepeat ==
  \/ Double
  \/ Assemble
  \/ \E r \in Ids : FoldAndSerialize(r)

SpecRepeat == InitRepeat /\ [][NextRepeat]_vars

\* every integer literal of the graph at r fits the format's signed 64 bits
IntLiteralsFit(h, r) ==
  \A p \in 1..Len(NodeTable(h, r)) :
    LET n == h[NodeTable(h, r)[p]]
    IN (n.tag = PRIM /\ n.prim_op = INT_LIT /\ IsIntData(n.data))
         => FitsSigned(IntOf(n.data), 8)

\* C27: if every integer literal of n fits in 64 bits and serialize(n)
\* succeeds, then every integer literal of constant_fold(n) fits in 64 bits
\* and serialize(constant_fold(n)) succeeds.
C27_FoldStaysSerializable ==
  (phase = "folded" /\ IntLiteralsFit(heap, root) /\ output.before.k = "ok")
    => /\ IntLiteralsFit(output.heap, output.root)
       /\ output.after.k = "ok"

-----------------------------------------------------------------------------
(* One SandboxedInterpreter, called through eval_safe again and again:    *)
(* self.stats is the dict made in __init__, updated in place by each call *)
(* and handed back by each call.                                          *)

MaxCalls == 3

\* the subclasses of SandboxError
SandboxErrors ==
  { "GasExhausted", "MemoryExceeded", "TimeoutError", "CapabilityDenied", "PurityViolation" }

\* type(result_val).__name__
TypeName(v) == IF v.k = "repr" THEN "str" ELSE v.k

\* eval_safe(node) when self.eval(node) returned or raised r: the value
\* handed back and self.stats after the call, from self.stats before it.
\* The wall-clock entry is left out.
eval_safe(stats, node, r) ==
  LET preflight == Raised(r) /\ r.v.exc = "CapabilityDenied"
      started == ~preflight /\ ~(Raised(r) /\ r.v.exc = "MemoryExceeded")
      \* the step that exhausts the gas is counted before it is refused
      steps == IF Raised(r) /\ r.v.exc = "GasExhausted" THEN r.c + 1 ELSE r.c
      measured == [stats EXCEPT !.max_nodes = IF preflight THEN @ ELSE count_nodes(<<node>>),
                                !.steps = IF started THEN steps ELSE @]
  IN CASE ~Raised(r) ->
            [value |-> r.v, produced |-> TRUE,
             stats |-> [measured EXCEPT !.result_type = TypeName(r.v)]]
       [] Raised(r) /\ r.v.exc \in SandboxErrors ->
            [value |-> PyNone, produced |-> FALSE,
             stats |-> [measured EXCEPT !.error = [internal |-> FALSE, of |-> r.v],
                                        !.exit_code = 1]]
       [] OTHER ->
            [value |-> PyNone, produced |-> FALSE,
             stats |-> [measured EXCEPT !.error = [internal |-> TRUE, of |-> r.v],
                                        !.exit_code = 2]]

SafeNodes ==
  { Seven, B_unit, B_var(0), B_effect(Seven, EFFECT_IO), B_app(Identity, Seven),
    B_app(B_prim(INT_NEG), B_app(B_prim(INT_NEG), B_app(B_prim(INT_NEG), Seven))) }

\* sb = SandboxedInterpreter(SandboxConfig(gas=gas))
InitSandbox ==
  /\ heap = <<>>
  /\ phase = "sandbox"
  /\ root = 0
  /\ input = None
  /\ output \in [gas : {3, MaxGas}, calls : {0}, value : {PyNone}, produced : {FALSE},
                 stats : {[steps |-> 0, max_nodes |-> 0, result_type |-> PyNone,
                           exit_code |-> 0, error |-> PyNone]}]

\* value, stats = sb.eval_safe(node)
EvalSafe(node) ==
  /\ phase = "sandbox"
  /\ output.calls < MaxCalls
  /\ input' = node
  /\ \E r \in {SandboxedInterpreter_eval(node, output.gas)} :
     \E o \in {eval_safe(output.stats, node, r)} :
       output' = [gas |-> output.gas, calls |-> output.calls + 1, value |-> o.value,
                  produced |-> o.produced, stats |-> o.stats]
  /\ UNCHANGED <<heap, phase, root>>

NextSandbox == \E node \in SafeNodes : EvalSafe(node)

SpecSandbox == InitSandbox /\ [][NextSandbox]_vars

\* C29: after any sequence of eval_safe calls on one SandboxedInterpreter,
\* the stats of the latest call have exit_code 0 and error None if and only
\* if that call produced a value.
C29_StatsDescribeLatestCall ==
  (phase = "sandbox" /\ output.calls > 0)
    => ((output.stats.exit_code = 0 /\ output.stats.error = PyNone) <=> output.produced)

-----------------------------------------------------------------------------
(* Modules and the registry: xi_module.py.  The heap holds the nodes that *)
(* are defined; a digest is modelled by the sequence of chunks fed to it. *)

MaxModules == 2
MaxOps == 3

ModuleIds == 1..MaxModules
\* "a", "ab"
ModuleNames == { <<97>>, <<97, 98>> }
\* the export names, in sorted order: "b", "c"
ExportNames == << <<98>>, <<99>> >>

\* Module(name): exports[k] is the hash of the export ExportNames[k], PyNone
\* while there is none; dependencies and the registry are dicts, kept as
\* sets of <<key, module>>
NewModule(name) ==
  [name |-> name, exports |-> [k \in 1..Len(ExportNames) |-> PyNone],
   dependencies |-> {}, _hash |-> PyNone]

\* the digest module_hash computes: the name, then for each export in
\* sorted order its name and its hash
RECURSIVE ExportChunks(_, _)
ExportChunks(exports, k) ==
  IF k > Len(ExportNames) THEN <<>>
  ELSE (IF exports[k] = PyNone THEN <<>> ELSE ExportNames[k] \o <<exports[k]>>)
       \o ExportChunks(exports, k + 1)

module_hash(m) ==
  IF m._hash = PyNone
    THEN [k |-> "sha256", fed |-> Utf8Encode(m.name) \o ExportChunks(m.exports, 1)]
    ELSE m._hash

InitModules ==
  /\ heap = <<B_int_lit(1), B_int_lit(2)>>
  /\ phase = "modules"
  /\ root = 0
  /\ input = 0
  /\ output \in [module : [ModuleIds -> {NewModule(name) : name \in ModuleNames}],
                 modules : {{}}, by_name : {{}}]

Linking == phase = "modules" /\ input < MaxOps

\* m.define(ExportNames[k], heap[node])
Define(m, k, node) ==
  /\ Linking
  /\ input' = input + 1
  /\ output' = [output EXCEPT !.module[m].exports[k] = content_hash(heap, node),
                              !.module[m]._hash = PyNone]
  /\ UNCHANGED <<heap, phase, root>>

\* m.depend(d): d.module_hash() fills d's cache
Depend(m, d) ==
  /\ Linking
  /\ m # d
  /\ input' = input + 1
  /\ output' = [output EXCEPT
       !.module[d]._hash = module_hash(output.module[d]),
       !.module[m].dependencies =
          {e \in @ : e[1] # module_hash(output.module[d])}
            \cup {<<module_hash(output.module[d]), d>>},
       !.module[m]._hash = PyNone]
  /\ UNCHANGED <<heap, phase, root>>

\* registry.register(m)
Register(m) ==
  /\ Linking
  /\ input' = input + 1
  /\ output' = [output EXCEPT
       !.module[m]._hash = module_hash(output.module[m]),
       !.modules = {e \in @ : e[1] # module_hash(output.module[m])}
                     \cup {<<module_hash(output.module[m]), m>>},
       !.by_name = {e \in @ : e[1] # output.module[m].name}
                     \cup {<<output.module[m].name, m>>}]
  /\ UNCHANGED <<heap, phase, root>>

NextModules ==
  \/ \E m \in ModuleIds, k \in 1..Len(ExportNames), node \in 1..Len(heap) : Define(m, k, node)
  \/ \E m \in ModuleIds, d \in ModuleIds : Depend(m, d)
  \/ \E m \in ModuleIds : Register(m)

SpecModules == InitModules /\ [][NextModules]_vars

\* Registry.get(hash_hex): the module stored under the hash, PyNone for
\* ModuleError
Registry_get(hash_hex) ==
  IF \E e \in output.modules : e[1] = hash_hex
    THEN (CHOOSE e \in output.modules : e[1] = hash_hex)[2]
    ELSE PyNone

\* C30: after any sequence of Module.define, Module.depend and
\* Registry.register calls, every entry (h, m) of Registry.modules satisfies
\* m.module_hash() == h, and Registry.get(m.module_hash()) returns m.
C30_RegistryKeyedByCurrentHash ==
  phase = "modules" =>
    \A e \in output.modules :
      /\ module_hash(output.module[e[2]]) = e[1]
      /\ Registry_get(module_hash(output.module[e[2]])) = e[2]

====
